---- MODULE Spec2Model ----
(***************************************************************************)
(* A model of kandelkapi1/mongodb-profiler: the query extractor            *)
(* (extract-queries.js), the plan execution engine (run-profiler.js) and   *)
(* the analyzer / report generator (analyze-explains.js).                  *)
(*                                                                         *)
(* Each script is its own process with its own input file, so each has its *)
(* own specification over the shared variable list:                        *)
(*   SpecProfiler  run-profiler.js main                                    *)
(*   SpecClassify  summarizeExplain + analyzePerformance on one plan       *)
(*   SpecAnalyze   analyze-explains.js main and generatePRReport           *)
(*   SpecExtract   extract-queries.js main, run twice over one tree        *)
(*   SpecFind      extract-queries.js findJsFiles on one directory tree     *)
(*   SpecLoad      load-data.js loadFile on one data file                   *)
(*   SpecPipeline  mongo-profiler-pipeline.js main and the stages it spawns *)
(***************************************************************************)
EXTENDS Integers, Sequences, FiniteSets, TLC

VARIABLES
  env,          \* process.env: the four threshold variables
  queriesFile,  \* run-profiler: the file at QUERIES_FILE
  pPc,          \* run-profiler: position of main
  client,       \* run-profiler: the MongoClient ("new", "open", "closed")
  queries,      \* run-profiler: the parsed descriptor list
  qi,           \* run-profiler: the loop index i (1-based here)
  results,      \* run-profiler: the results array
  dbLog,        \* run-profiler: every request sent to the database, in order
  pending,      \* run-profiler: the requests sent and not yet settled
  exitCode,     \* run-profiler: process exit code ("none" while running)
  cPc,          \* classifier: "input" before, "done" after the plan is classified
  cExplain,     \* classifier: the raw plan object given to summarizeExplain
  cSummary,     \* classifier: what summarizeExplain returned
  cVerdict,     \* classifier: what analyzePerformance returned
  inputFile,    \* analyzer: the file at INPUT_FILE (profiler-output.log)
  aPc,          \* analyzer: position of main ("start", "done", "exited")
  summaryFile,  \* analyzer: what was written to SUMMARY_FILE
  prReport,     \* analyzer: what was written to PR_REPORT_FILE
  aRuns,        \* analyzer: how many times the stage has been started
  tree,         \* extractor: the .js/.ts files of the source tree, in discovery order
  eRuns,        \* extractor: how many runs of extract-queries.js have ended
  allQueries,   \* extractor: allQueries of the last run
  origin,       \* extractor: for each element of allQueries, the file, line and rule it came from
  outputFile,   \* extractor: the content of OUTPUT_FILE (reports/queries.json)
  outputs,      \* extractor: the content of OUTPUT_FILE after each run
  fsRoot,       \* findJsFiles: the entries of the directory SEARCH_DIR, recursively
  fPc,          \* findJsFiles: "input" before, "done" after the call
  foundFiles,   \* findJsFiles: the paths the call returned
  forceReload,  \* loader: process.env.FORCE_RELOAD
  lFile,        \* loader: the data file given to loadFile
  lColl,        \* loader: the target collection (documents it held before, documents inserted)
  lPc,          \* loader: position of loadFile
  lI,           \* loader: the batch loop's index i
  lConfirmation, \* loader: the confirmation of line 166
  dPc,          \* pipeline driver: position of main ("start", the stage awaited, "done", "exited")
  dFs,          \* pipeline driver: the content of each artifact file, by resolved path
  stages,       \* pipeline driver: the stages runScript was called for, with their outcome
  consumed,     \* pipeline driver: what the driver and each stage read, in order
  dExit         \* pipeline driver: process exit code ("none" while running)

profVars == <<queriesFile, pPc, client, queries, qi, results, dbLog, pending, exitCode>>
clsVars == <<cPc, cExplain, cSummary, cVerdict>>
anaVars == <<inputFile, aPc, summaryFile, prReport, aRuns>>

extVars == <<tree, eRuns, allQueries, origin, outputFile, outputs>>

fndVars == <<fsRoot, fPc, foundFiles>>
ldVars == <<forceReload, lFile, lColl, lPc, lI, lConfirmation>>

pipeVars == <<dPc, dFs, stages, consumed, dExit>>

vars == <<env, profVars, clsVars, anaVars, extVars, fndVars, ldVars, pipeVars>>

\* The variables of the other programs, which a program's steps leave alone.
ProfilerOnly == UNCHANGED <<clsVars, anaVars, extVars, fndVars, ldVars, pipeVars>>
ClassifyOnly == UNCHANGED <<profVars, anaVars, extVars, fndVars, ldVars, pipeVars>>
AnalyzeOnly == UNCHANGED <<profVars, clsVars, extVars, fndVars, ldVars, pipeVars>>
ExtractOnly == UNCHANGED <<env, profVars, clsVars, anaVars, fndVars, ldVars, pipeVars>>
FindOnly == UNCHANGED <<env, profVars, clsVars, anaVars, extVars, ldVars, pipeVars>>
LoadOnly == UNCHANGED <<env, profVars, clsVars, anaVars, extVars, fndVars, pipeVars>>
PipelineOnly == UNCHANGED <<env, profVars, clsVars, anaVars, extVars, fndVars, ldVars>>

(***************************************************************************)
(* Bounds                                                                  *)
(***************************************************************************)
MaxQueries == 2

(***************************************************************************)
(* JavaScript values                                                       *)
(***************************************************************************)
\* A field that is undefined / not present on an object.
Undefined == "undefined"

\* JS truthiness of a string-or-undefined field: undefined and "" are falsy.
Truthy(s) == s # Undefined /\ s # ""

Obj(d) == [t |-> "object", doc |-> d]
Arr(e) == [t |-> "array", elems |-> e]
Str(s) == [t |-> "string", str |-> s]
Null == [t |-> "null"]
\* The object JSON.parse returns for the chained rule's JSON.stringify(queryParts):
\* a sequence of <<key, raw text>> pairs in insertion order.
Parts(p) == [t |-> "parts", parts |-> p]

IsArray(v) == v.t = "array"
\* null is the only falsy value the raw texts of this model evaluate to.
TruthyVal(v) == v.t # "null"

(***************************************************************************)
(* process.env and the thresholds                                          *)
(***************************************************************************)
\* An environment variable: unset, or set to a text whose numeric prefix
\* parseInt/parseFloat reads as num/den, or to a text that is not numeric.
EnvUnset == [set |-> FALSE]
EnvNaN == [set |-> TRUE, numeric |-> FALSE]
EnvNum(n, d) == [set |-> TRUE, numeric |-> TRUE, num |-> n, den |-> d]

NaN == [nan |-> TRUE]
Num(n, d) == [nan |-> FALSE, num |-> n, den |-> d]

\* parseInt(process.env.X): NaN for undefined or non-numeric text, else the
\* integer part (truncated toward zero).
parseInt(e) ==
  IF ~e.set \/ ~e.numeric THEN NaN
  ELSE Num(IF e.num >= 0 THEN e.num \div e.den ELSE -((-e.num) \div e.den), 1)

\* parseFloat(process.env.X)
parseFloat(e) ==
  IF ~e.set \/ ~e.numeric THEN NaN ELSE Num(e.num, e.den)

\* a || b on numbers: NaN and 0 are falsy.
OrDefault(v, dflt) ==
  IF v.nan \/ v.num = 0 THEN dflt ELSE v

\* run-profiler.js line 11
MAX_DOCS_EXAMINED == OrDefault(parseInt(env.MAX_DOCS_EXAMINED), Num(500, 1)).num

(***************************************************************************)
(* Raw argument texts and their reconstruction (run-profiler.js 14-27)     *)
(***************************************************************************)
RawJson == "{\"a\":1}"
RawLit == "{ a: 1 }"
RawSort == "{ b: 1 }"
RawProj == "{ c: 1 }"
RawPipe == "[{ $match: { a: 1 } }]"
RawUpd == "{ a: 1 }, { $set: { b: 2 } }"
RawUpdArr == "[{ a: 1 }, { $set: { b: 2 } }]"
RawDist == "'status', { a: 1 }"
RawDistArr == "['status', { a: 1 }]"
RawBad == "{ a: "
RawNull == "null"
RawIdStr == "\"abc\""
\* rawQuery texts the chained rule writes: JSON.stringify(queryParts)
RawChFindSort == "{\"find\":\"{ a: 1 }\",\"sort\":\"{ b: 1 }\"}"
RawChSortOnly == "{\"sort\":\"{ b: 1 }\"}"
RawChFull == "{\"find\":\"{ a: 1 }\",\"project\":\"{ c: 1 }\",\"sort\":\"{ b: 1 }\",\"skip\":\"10\",\"limit\":\"5\"}"
RawChAgg == "{\"aggregate\":\"{ a: 1 }\"}"
RawChIns == "{\"insertOne\":\"{ a: 1 }\"}"
RawChBadFind == "{\"find\":\"{ a: \"}"

Threw == [ok |-> FALSE]
Ok(v) == [ok |-> TRUE, val |-> v]

\* JSON.parse(raw): the value, or a SyntaxError.
JSONParse(raw) ==
  CASE raw = RawJson -> Ok(Obj(RawLit))
    [] raw = RawNull -> Ok(Null)
    [] raw = RawIdStr -> Ok(Str("abc"))
    [] raw = RawChFindSort -> Ok(Parts(<<<<"find", RawLit>>, <<"sort", RawSort>>>>))
    [] raw = RawChSortOnly -> Ok(Parts(<<<<"sort", RawSort>>>>))
    [] raw = RawChFull -> Ok(Parts(<<<<"find", RawLit>>, <<"project", RawProj>>,
                                     <<"sort", RawSort>>, <<"skip", "10">>,
                                     <<"limit", "5">>>>))
    [] raw = RawChAgg -> Ok(Parts(<<<<"aggregate", RawLit>>>>))
    [] raw = RawChIns -> Ok(Parts(<<<<"insertOne", RawLit>>>>))
    [] raw = RawChBadFind -> Ok(Parts(<<<<"find", RawBad>>>>))
    [] OTHER -> Threw

\* eval(`(${raw})`): the value of the parenthesised expression (for a comma
\* separated argument list that is the LAST operand), or an exception.
Eval(raw) ==
  CASE raw = RawJson -> Ok(Obj(RawLit))
    [] raw = RawLit -> Ok(Obj(RawLit))
    [] raw = RawSort -> Ok(Obj(RawSort))
    [] raw = RawProj -> Ok(Obj(RawProj))
    [] raw = RawPipe -> Ok(Arr(<<Obj("{ $match: { a: 1 } }")>>))
    [] raw = RawUpd -> Ok(Obj("{ $set: { b: 2 } }"))
    [] raw = RawUpdArr -> Ok(Arr(<<Obj(RawLit), Obj("{ $set: { b: 2 } }")>>))
    [] raw = RawDist -> Ok(Obj(RawLit))
    [] raw = RawDistArr -> Ok(Arr(<<Str("status"), Obj(RawLit)>>))
    [] raw = RawNull -> Ok(Null)
    [] raw = RawIdStr -> Ok(Str("abc"))
    [] OTHER -> Threw

\* parseInt of a chained skip text
ParseIntText(txt) ==
  CASE txt = "10" -> 10
    [] txt = "5" -> 5
    [] OTHER -> 0

\* parseRawQuery: JSON first, eval as the fallback, null when both throw.
parseRawQuery(raw) ==
  IF JSONParse(raw).ok THEN JSONParse(raw).val
  ELSE IF Eval(raw).ok THEN Eval(raw).val
  ELSE Null

\* String.prototype.toLowerCase on the method names of this model.
toLowerCase(m) ==
  CASE m = "findOne" -> "findone"
    [] m = "findById" -> "findbyid"
    [] m = "Aggregate" -> "aggregate"
    [] m = "updateOne" -> "updateone"
    [] m = "updateMany" -> "updatemany"
    [] m = "replaceOne" -> "replaceone"
    [] m = "deleteOne" -> "deleteone"
    [] m = "deleteMany" -> "deletemany"
    [] m = "countDocuments" -> "countdocuments"
    [] m = "estimatedDocumentCount" -> "estimateddocumentcount"
    [] m = "insertOne" -> "insertone"
    [] m = "insertMany" -> "insertmany"
    [] m = "toArray" -> "toarray"
    [] m = "User" -> "user"
    [] m = "Y" -> "y"
    [] m \in {"YES", "Yes"} -> "yes"
    [] m = "TRUE" -> "true"
    [] OTHER -> m

(***************************************************************************)
(* getExplainResult (run-profiler.js 30-113)                               *)
(***************************************************************************)
EmptyObj == Obj("{}")

LimitCall(n) == [call |-> "limit", n |-> n]
SkipCall(n) == [call |-> "skip", n |-> n]
ArgCall(name, v) == [call |-> name, arg |-> v]
FindReq(filter, calls) == [op |-> "find", filter |-> filter, calls |-> calls]
AggReq(pipeline) == [op |-> "aggregate", pipeline |-> pipeline]
LimitStage(n) == [t |-> "$limit", n |-> n]

ErrResult(msg) == [kind |-> "error", error |-> msg]
InfoResult(msg) == [kind |-> "info", info |-> msg]
PlanResult == [kind |-> "plan"]
NoExplain == [kind |-> "undefined"]

MsgInvalidSyntax == "Invalid query syntax"
MsgNotArray == "Aggregate pipeline must be an array"
MsgUnsupported == "Unsupported method"
MsgInsertInfo == "Insert operations do not require query optimization"
MsgMissingCollection == "Collection name missing"
\* err.message of an exception: thrown by JSON.parse / eval / property access,
\* by the driver on explain, or by db.collection on an illegal name
MsgException == "SyntaxError or TypeError"
MsgDbError == "MongoServerError"
MsgBadName == "MongoInvalidArgumentError"

\* await <request>.explain('executionStats'): the request reaches the database,
\* which answers with a plan or makes the driver throw (caught at line 110).
Explain(req, db) ==
  [result |-> IF db = "plan" THEN PlanResult ELSE ErrResult(MsgDbError),
   requests |-> <<req>>]

NoRequest(res) == [result |-> res, requests |-> <<>>]

\* find(queryObj).explain(...) without the .limit(MAX_DOCS_EXAMINED)
UncappedFind(filter, db) == Explain(FindReq(filter, <<>>), db)

\* find(queryObj).limit(MAX_DOCS_EXAMINED).explain(...)
CappedFind(filter, db) == Explain(FindReq(filter, <<LimitCall(MAX_DOCS_EXAMINED)>>), db)

HasPart(v, key) ==
  v.t = "parts" /\ \E k \in 1..Len(v.parts) : v.parts[k][1] = key /\ v.parts[k][2] # ""

PartText(v, key) ==
  LET k == CHOOSE j \in 1..Len(v.parts) : v.parts[j][1] = key IN v.parts[k][2]

\* lines 33-51: the chained pattern
ChainedExplain(rawQuery, db) ==
  IF ~JSONParse(rawQuery).ok THEN NoRequest(ErrResult(MsgException))
  ELSE LET pq == JSONParse(rawQuery).val IN
    IF pq.t = "null" THEN NoRequest(ErrResult(MsgException))
    ELSE IF HasPart(pq, "find") /\ ~Eval(PartText(pq, "find")).ok
      THEN NoRequest(ErrResult(MsgException))
    ELSE IF HasPart(pq, "project") /\ ~Eval(PartText(pq, "project")).ok
      THEN NoRequest(ErrResult(MsgException))
    ELSE IF HasPart(pq, "sort") /\ ~Eval(PartText(pq, "sort")).ok
      THEN NoRequest(ErrResult(MsgException))
    ELSE
      LET filter == IF HasPart(pq, "find") THEN Eval(PartText(pq, "find")).val
                    ELSE EmptyObj
          c1 == IF HasPart(pq, "project")
                THEN <<ArgCall("project", Eval(PartText(pq, "project")).val)>>
                ELSE <<>>
          c2 == IF HasPart(pq, "sort")
                THEN <<ArgCall("sort", Eval(PartText(pq, "sort")).val)>>
                ELSE <<>>
          c3 == <<LimitCall(MAX_DOCS_EXAMINED)>>
          c4 == IF HasPart(pq, "skip")
                THEN <<SkipCall(ParseIntText(PartText(pq, "skip")))>>
                ELSE <<>>
      IN Explain(FindReq(filter, c1 \o c2 \o c3 \o c4), db)

\* line 67-68: findById
IdFilter(v) == [t |-> "object", doc |-> "{ _id }",
                id |-> IF v.t = "string" THEN v.str ELSE Undefined]

\* lines 87-89 with the delete carried out instead of its filter explained
DeleteExecuted(queryObj, db) ==
  [result |-> PlanResult, requests |-> <<[op |-> "deleteMany", filter |-> queryObj]>>]

\* lines 87-89: deleteOne / deleteMany explain their filter as a find
DeleteExplain(queryObj, db) == CappedFind(queryObj, db)

\* lines 53-109: every other pattern
MethodExplain(method, rawQuery, db) ==
  LET queryObj == parseRawQuery(rawQuery)
      m == toLowerCase(method)
  IN
  IF ~TruthyVal(queryObj) THEN NoRequest(ErrResult(MsgInvalidSyntax))
  ELSE CASE m \in {"find", "findone"} -> CappedFind(queryObj, db)
    [] m = "findbyid" -> CappedFind(IdFilter(queryObj), db)
    [] m = "aggregate" ->
         IF ~IsArray(queryObj) THEN NoRequest(ErrResult(MsgNotArray))
         ELSE Explain(AggReq(Append(queryObj.elems, LimitStage(MAX_DOCS_EXAMINED))), db)
    [] m \in {"updateone", "updatemany", "replaceone"} ->
         IF IsArray(queryObj) /\ Len(queryObj.elems) >= 1
         THEN CappedFind(queryObj.elems[1], db)
         ELSE CappedFind(queryObj, db)
    [] m \in {"deleteone", "deletemany"} -> DeleteExplain(queryObj, db)
    [] m \in {"countdocuments", "estimateddocumentcount"} -> CappedFind(queryObj, db)
    [] m = "distinct" ->
         IF IsArray(queryObj) /\ Len(queryObj.elems) >= 2
         THEN CappedFind(IF TruthyVal(queryObj.elems[2]) THEN queryObj.elems[2]
                         ELSE EmptyObj, db)
         ELSE CappedFind(EmptyObj, db)
    [] m \in {"insertone", "insertmany"} -> NoRequest(InfoResult(MsgInsertInfo))
    [] OTHER -> NoRequest(ErrResult(MsgUnsupported))

getExplainResult(method, rawQuery, pattern, db) ==
  IF pattern = "chained" THEN ChainedExplain(rawQuery, db)
  ELSE MethodExplain(method, rawQuery, db)


(***************************************************************************)
(* A program that is not running                                           *)
(***************************************************************************)
NoSummary == [totalMillis |-> 0, indexUsed |-> Undefined, stage |-> Undefined,
              docsExamined |-> 0, docsReturned |-> 0, keysExamined |-> 0]
NoVerdict == [performanceScore |-> Undefined, issues |-> <<>>, warnings |-> <<>>,
              suggestions |-> <<>>]

IdleClassify ==
  /\ cPc = "idle"
  /\ cExplain = NoExplain
  /\ cSummary = NoSummary
  /\ cVerdict = NoVerdict

NoReport == [total |-> 0, successful |-> 0, errors |-> 0, noneAnalyzed |-> FALSE,
             good |-> 0, fair |-> 0, poor |-> 0, details |-> <<>>]

IdleAnalyze ==
  /\ inputFile = [exists |-> FALSE, records |-> <<>>, appended |-> 0]
  /\ aPc = "idle"
  /\ summaryFile = <<>>
  /\ prReport = NoReport
  /\ aRuns = 0

IdleExtract ==
  /\ tree = <<>>
  /\ eRuns = 0
  /\ allQueries = <<>>
  /\ origin = <<>>
  /\ outputFile = <<>>
  /\ outputs = <<>>

IdleFind ==
  /\ fsRoot = <<>>
  /\ fPc = "idle"
  /\ foundFiles = <<>>

IdleLoad ==
  /\ forceReload = Undefined
  /\ lFile = [nameOk |-> FALSE, kind |-> "none", docs |-> 0]
  /\ lColl = [before |-> 0, inserted |-> 0]
  /\ lPc = "idle"
  /\ lI = 0
  /\ lConfirmation = Undefined

IdlePipeline ==
  /\ dPc = "idle"
  /\ dFs = <<>>
  /\ stages = <<>>
  /\ consumed = <<>>
  /\ dExit = "none"

\* The programs that run only under their own specification.
IdleTools == IdleFind /\ IdleLoad /\ IdlePipeline

IdleProfiler ==
  /\ queriesFile = [exists |-> FALSE, parses |-> FALSE, queries |-> <<>>]
  /\ pPc = "idle"
  /\ client = "new"
  /\ queries = <<>>
  /\ qi = 1
  /\ results = <<>>
  /\ dbLog = <<>>
  /\ pending = <<>>
  /\ exitCode = "none"

(***************************************************************************)
(* run-profiler.js main (115-192)                                          *)
(***************************************************************************)
Desc(c, m, r, p) ==
  [file |-> "src/app.js", collection |-> c, method |-> m, rawQuery |-> r, pattern |-> p]

\* <<method, rawQuery>> of the descriptors the direct-call and named-entity
\* rules write
MethodRaws ==
  {<<"find", RawLit>>, <<"find", RawJson>>, <<"find", RawBad>>, <<"find", RawNull>>,
   <<"findOne", RawLit>>, <<"findById", RawIdStr>>,
   <<"aggregate", RawPipe>>, <<"aggregate", RawLit>>, <<"Aggregate", RawPipe>>,
   <<"updateOne", RawUpd>>, <<"updateMany", RawUpdArr>>, <<"replaceOne", RawLit>>,
   <<"deleteMany", RawLit>>, <<"countDocuments", RawLit>>,
   <<"distinct", RawDist>>, <<"distinct", RawDistArr>>,
   <<"insertOne", RawLit>>, <<"insertMany", RawPipe>>,
   <<"toArray", RawLit>>}

\* <<method, rawQuery>> of the descriptors the chained rule writes
ChainedRaws ==
  {<<"find", RawChFindSort>>, <<"find", RawChSortOnly>>, <<"find", RawChFull>>,
   <<"find", RawChBadFind>>, <<"aggregate", RawChAgg>>, <<"insertOne", RawChIns>>,
   <<"find", RawLit>>}

Descriptors ==
  {Desc("loads", mr[1], mr[2], "mongodb-driver") : mr \in MethodRaws}
  \cup {Desc("loads", mr[1], mr[2], "chained") : mr \in ChainedRaws}
  \cup {Desc("user", "find", RawLit, "mongoose-model"),
        Desc("user", "aggregate", RawLit, "mongoose-model"),
        Desc("loads", "find", RawLit, Undefined),
        Desc(Undefined, "find", RawLit, "mongodb-driver"),
        Desc("", "find", RawLit, Undefined),
        Desc("sys$tem", "find", RawLit, "mongodb-driver")}

SeqsUpTo(S, n) == UNION {[1..k -> S] : k \in 0..n}

\* db.collection(name): some driver versions validate the name when the
\* Collection object is built and throw on an illegal one.
IllegalName(c) == c = "sys$tem"

\* What the database (and driver) may do for one descriptor.
DbOutcomes(q) ==
  {"plan", "throw"} \cup (IF IllegalName(q.collection) THEN {"badname"} ELSE {})

\* line 149: the record pushed for a descriptor without a collection
MissingCollectionRecord(q) ==
  [file |-> q.file, collection |-> q.collection, method |-> q.method,
   rawQuery |-> q.rawQuery, pattern |-> Undefined, explain |-> NoExplain,
   error |-> MsgMissingCollection]

\* lines 156-163: the record pushed after getExplainResult returned
ExplainRecord(q, explainResult) ==
  [file |-> q.file, collection |-> q.collection, method |-> q.method,
   rawQuery |-> q.rawQuery,
   pattern |-> IF Truthy(q.pattern) THEN q.pattern ELSE "legacy",
   explain |-> explainResult, error |-> Undefined]

\* lines 165-173: the record pushed by the loop's catch
CaughtRecord(q, msg) ==
  [file |-> q.file, collection |-> q.collection, method |-> q.method,
   rawQuery |-> q.rawQuery, pattern |-> Undefined, explain |-> NoExplain,
   error |-> msg]

\* ProcessQuery without the `continue` of line 150: the missing-collection
\* record is pushed and the iteration goes on to push a second record.
ProcessQueryNoContinue(q, db) ==
  LET g == getExplainResult(q.method, q.rawQuery, q.pattern, db) IN
  IF ~Truthy(q.collection)
  THEN [records |-> <<MissingCollectionRecord(q), ExplainRecord(q, g.result)>>,
        requests |-> g.requests]
  ELSE [records |-> <<ExplainRecord(q, g.result)>>, requests |-> g.requests]

\* lines 142-174: one iteration of the loop; the records it pushes and the
\* requests it sends.
ProcessQuery(q, db) ==
  IF ~Truthy(q.collection)
  THEN [records |-> <<MissingCollectionRecord(q)>>, requests |-> <<>>]
  ELSE IF db = "badname"
  THEN [records |-> <<CaughtRecord(q, MsgBadName)>>, requests |-> <<>>]
  ELSE LET g == getExplainResult(q.method, q.rawQuery, q.pattern, db) IN
       [records |-> <<ExplainRecord(q, g.result)>>, requests |-> g.requests]

EnvDefaults ==
  [MAX_EXECUTION_TIME_MS |-> EnvUnset, WARN_EXECUTION_TIME_MS |-> EnvUnset,
   MAX_DOCS_EXAMINED |-> EnvUnset, MIN_QUERY_EFFICIENCY |-> EnvUnset]

QueriesFiles ==
  {[exists |-> FALSE, parses |-> FALSE, queries |-> <<>>],
   [exists |-> TRUE, parses |-> FALSE, queries |-> <<>>]}
  \cup {[exists |-> TRUE, parses |-> TRUE, queries |-> qs] :
          qs \in SeqsUpTo(Descriptors, MaxQueries)}

InitProfiler ==
  /\ env \in {EnvDefaults, [EnvDefaults EXCEPT !.MAX_DOCS_EXAMINED = EnvNum(200, 1)]}
  /\ queriesFile \in QueriesFiles
  /\ pPc = "start"
  /\ client = "new"
  /\ queries = <<>>
  /\ qi = 1
  /\ results = <<>>
  /\ dbLog = <<>>
  /\ pending = <<>>
  /\ exitCode = "none"
  /\ IdleClassify
  /\ IdleAnalyze
  /\ IdleExtract
  /\ IdleTools

\* lines 116-117: connect; a failed connect rejects main, and line 189 exits 1
Connect ==
  /\ pPc = "start"
  /\ \/ /\ client' = "open"
        /\ pPc' = "connected"
        /\ exitCode' = exitCode
     \/ /\ client' = client
        /\ pPc' = "exited"
        /\ exitCode' = "1"
  /\ UNCHANGED <<env, queriesFile, queries, qi, results, dbLog, pending>>
  /\ ProfilerOnly

\* lines 124-128: the queries file is missing: process.exit(1)
QueriesMissing ==
  /\ pPc = "connected"
  /\ ~queriesFile.exists
  /\ pPc' = "exited"
  /\ exitCode' = "1"
  /\ UNCHANGED <<env, queriesFile, client, queries, qi, results, dbLog, pending>>
  /\ ProfilerOnly

\* line 130: JSON.parse throws; main rejects and line 189 exits 1
QueriesUnparseable ==
  /\ pPc = "connected"
  /\ queriesFile.exists /\ ~queriesFile.parses
  /\ pPc' = "exited"
  /\ exitCode' = "1"
  /\ UNCHANGED <<env, queriesFile, client, queries, qi, results, dbLog, pending>>
  /\ ProfilerOnly

\* lines 130-137: an empty list closes the client and returns
QueriesEmpty ==
  /\ pPc = "connected"
  /\ queriesFile.exists /\ queriesFile.parses
  /\ Len(queriesFile.queries) = 0
  /\ queries' = queriesFile.queries
  /\ client' = "closed"
  /\ pPc' = "done"
  /\ exitCode' = "0"
  /\ UNCHANGED <<env, queriesFile, qi, results, dbLog, pending>>
  /\ ProfilerOnly

\* lines 130-139: a non-empty list starts the loop
QueriesRead ==
  /\ pPc = "connected"
  /\ queriesFile.exists /\ queriesFile.parses
  /\ Len(queriesFile.queries) > 0
  /\ queries' = queriesFile.queries
  /\ results' = <<>>
  /\ qi' = 1
  /\ pPc' = "loop"
  /\ UNCHANGED <<env, queriesFile, client, dbLog, pending, exitCode>>
  /\ ProfilerOnly

\* line 154 with the call left unawaited: the loop goes on while the request
\* is in flight.
NotAwaited(p) == TRUE

\* line 154: `await` suspends the loop until the request has settled, so an
\* iteration starts only when nothing is in flight.
Awaited(p) == p = <<>>

\* lines 141-154: an iteration whose getExplainResult sends a request; the
\* database's answer decides the record that will be pushed.
SendRequest ==
  /\ pPc = "loop"
  /\ qi <= Len(queries)
  /\ Awaited(pending)
  /\ \E db \in DbOutcomes(queries[qi]) :
       LET step == ProcessQuery(queries[qi], db) IN
       /\ step.requests # <<>>
       /\ dbLog' = dbLog \o [k \in 1..Len(step.requests) |->
                               [i |-> qi, req |-> step.requests[k]]]
       /\ pending' = Append(pending, [i |-> qi, records |-> step.records])
  /\ UNCHANGED <<env, queriesFile, pPc, client, queries, qi, results, exitCode>>
  /\ ProfilerOnly

\* lines 154-175: the request settled (answered or thrown); the record is
\* pushed and the loop moves to the next descriptor.
Settle ==
  /\ pPc = "loop"
  /\ pending # <<>>
  /\ results' = results \o Head(pending).records
  /\ pending' = Tail(pending)
  /\ qi' = qi + 1
  /\ UNCHANGED <<env, queriesFile, pPc, client, queries, dbLog, exitCode>>
  /\ ProfilerOnly

\* lines 141-175: an iteration that sends nothing (missing collection, illegal
\* name, unparseable text, insert, unsupported method)
Iterate ==
  /\ pPc = "loop"
  /\ qi <= Len(queries)
  /\ Awaited(pending)
  /\ \E db \in DbOutcomes(queries[qi]) :
       LET step == ProcessQuery(queries[qi], db) IN
       /\ step.requests = <<>>
       /\ results' = results \o step.records
  /\ qi' = qi + 1
  /\ UNCHANGED <<env, queriesFile, pPc, client, queries, dbLog, pending, exitCode>>
  /\ ProfilerOnly

\* lines 178-186: write the results, close the client
WriteResults ==
  /\ pPc = "loop"
  /\ qi > Len(queries)
  /\ client' = "closed"
  /\ pPc' = "done"
  /\ exitCode' = "0"
  /\ UNCHANGED <<env, queriesFile, queries, qi, results, dbLog, pending>>
  /\ ProfilerOnly

\* line 178: writeFileSync throws; main rejects and line 189 exits 1
WriteFails ==
  /\ pPc = "loop"
  /\ qi > Len(queries)
  /\ pPc' = "exited"
  /\ exitCode' = "1"
  /\ UNCHANGED <<env, queriesFile, client, queries, qi, results, dbLog, pending>>
  /\ ProfilerOnly

NextProfiler ==
  \/ Connect
  \/ QueriesMissing
  \/ QueriesUnparseable
  \/ QueriesEmpty
  \/ QueriesRead
  \/ Iterate
  \/ SendRequest
  \/ Settle
  \/ WriteResults
  \/ WriteFails

SpecProfiler == InitProfiler /\ [][NextProfiler]_vars


(***************************************************************************)
(* Properties of the profiling run                                         *)
(***************************************************************************)
\* The descriptor failed: main reported it (top-level error), or
\* getExplainResult returned its { error } object.
DescriptorFailed(r) == Truthy(r.error) \/ r.explain.kind = "error"

\* What the analyzer summarises and classifies: r.explain && !r.error
\* (analyze-explains.js 148, 163, 282-290).
CarriesPlan(r) == r.explain.kind # "undefined" /\ ~Truthy(r.error)

\* The error kind an error message identifies.
ErrorKind(msg) ==
  CASE msg = MsgNotArray -> "InvalidPipelineShape"
    [] msg = MsgInvalidSyntax -> "InvalidQuerySyntax"
    [] msg = MsgMissingCollection -> "MissingCollection"
    [] msg = MsgUnsupported -> "UnsupportedMethod"
    [] msg \in {MsgDbError, MsgBadName, MsgException} -> "ExecutionFailure"
    [] OTHER -> "none"

\* C1 (as claimed): every result record carries a top-level error message iff
\* its descriptor failed, carries a plan to be summarised and classified iff
\* it succeeded, and never both and never neither.
C1_DiscriminatedRecord ==
  \A k \in 1..Len(results) :
    LET r == results[k] IN
    /\ Truthy(r.error) <=> DescriptorFailed(r)
    /\ CarriesPlan(r) <=> r.explain.kind = "plan"
    /\ Truthy(r.error) # CarriesPlan(r)

\* Record r is the record of descriptor q.
BelongsTo(r, q) ==
  /\ r.file = q.file
  /\ r.collection = q.collection
  /\ r.method = q.method
  /\ r.rawQuery = q.rawQuery

\* C2: the loop pushes exactly one record per descriptor, record i for
\* descriptor i, whatever fails: inside the loop i-1 records exist for the
\* i-1 descriptors behind it, and the run ends with as many records as
\* descriptors.
C2_OneRecordPerDescriptor ==
  /\ pPc = "loop" => Len(results) = qi - 1 /\ qi <= Len(queries) + 1
  /\ pPc \in {"done", "exited"} => Len(results) = Len(queries)
  /\ \A k \in 1..Len(results) : BelongsTo(results[k], queries[k])

\* C2 witness: a batch of two whose first descriptor failed ran to its end.
C2_Witness ==
  /\ pPc = "done"
  /\ Len(queries) = 2
  /\ Len(results) = 2
  /\ DescriptorFailed(results[1])

\* The argument an aggregate descriptor reconstructs to.
AggregateArgument(q) ==
  IF q.pattern = "chained"
  THEN LET pq == JSONParse(q.rawQuery) IN
       IF pq.ok /\ HasPart(pq.val, q.method) /\ Eval(PartText(pq.val, q.method)).ok
       THEN Eval(PartText(pq.val, q.method)).val
       ELSE Null
  ELSE parseRawQuery(q.rawQuery)

\* C10 (as claimed): an aggregate descriptor whose reconstructed argument is
\* not an array yields a record whose error message identifies
\* InvalidPipelineShape, and no database request is sent for it.
C10_InvalidPipelineShape ==
  \A k \in 1..Len(results) :
    LET q == queries[k] IN
    ( /\ Truthy(q.collection)
      /\ toLowerCase(q.method) = "aggregate"
      /\ TruthyVal(AggregateArgument(q))
      /\ ~IsArray(AggregateArgument(q)) )
    => /\ ErrorKind(results[k].error) = "InvalidPipelineShape"
       /\ \A j \in 1..Len(dbLog) : dbLog[j].i # k

\* C11: every request the engine sends is an explain of a find cursor or of
\* an aggregate pipeline, whatever the descriptor's method and pattern: no
\* insert, update, replace or delete reaches the database.
C11_ReadOnlyRequests ==
  \A j \in 1..Len(dbLog) : dbLog[j].req.op \in {"find", "aggregate"}

\* C11 witness: a batch with an update and a delete descriptor has ended and
\* a request was sent for each of them.
C11_Witness ==
  /\ pPc = "done"
  /\ Len(queries) = 2
  /\ toLowerCase(queries[1].method) = "updateone"
  /\ toLowerCase(queries[2].method) = "deletemany"
  /\ \E j \in 1..Len(dbLog) : dbLog[j].i = 1
  /\ \E j \in 1..Len(dbLog) : dbLog[j].i = 2

\* The place of a cursor call in the order projection, sort, skip, limit.
CallRank(c) ==
  CASE c.call = "project" -> 1
    [] c.call = "sort" -> 2
    [] c.call = "skip" -> 3
    [] c.call = "limit" -> 4
    [] OTHER -> 0

\* C12 (as claimed): on the cursor of a chained descriptor the recovered
\* parts are applied in the order projection, sort, skip, and the cap
\* limit(MAX_DOCS_EXAMINED) is the last call before the plan request.
C12_ChainedCallOrder ==
  \A j \in 1..Len(dbLog) :
    LET q == queries[dbLog[j].i]
        calls == dbLog[j].req.calls
    IN (q.pattern = "chained" /\ dbLog[j].req.op = "find") =>
         /\ Len(calls) > 0
         /\ calls[Len(calls)] = LimitCall(MAX_DOCS_EXAMINED)
         /\ \A a, b \in 1..Len(calls) : a < b => CallRank(calls[a]) < CallRank(calls[b])

\* C13: every request is size-capped: a find request carries exactly one
\* limit, limit(MAX_DOCS_EXAMINED), and an aggregate request is sent on the
\* reconstructed pipeline extended by one last stage { $limit: MAX_DOCS_EXAMINED }.
C13_EveryRequestCapped ==
  \A j \in 1..Len(dbLog) :
    LET req == dbLog[j].req
        q == queries[dbLog[j].i]
    IN /\ req.op = "find" =>
            /\ \E k \in 1..Len(req.calls) : req.calls[k] = LimitCall(MAX_DOCS_EXAMINED)
            /\ Cardinality({k \in 1..Len(req.calls) : req.calls[k].call = "limit"}) = 1
       /\ req.op = "aggregate" =>
            /\ IsArray(parseRawQuery(q.rawQuery))
            /\ req.pipeline = Append(parseRawQuery(q.rawQuery).elems,
                                     LimitStage(MAX_DOCS_EXAMINED))

\* C13 witness: with MAX_DOCS_EXAMINED=200 in the environment a find and an
\* aggregate descriptor were sent to the database, capped at 200.
C13_Witness ==
  /\ pPc = "done"
  /\ MAX_DOCS_EXAMINED = 200
  /\ Len(dbLog) = 2
  /\ dbLog[1].req = FindReq(Obj(RawLit), <<LimitCall(200)>>)
  /\ dbLog[2].req.op = "aggregate"
  /\ dbLog[2].req.pipeline[Len(dbLog[2].req.pipeline)] = LimitStage(200)

\* C15 (as claimed): on every path on which the client has connected, the
\* client is closed when the process ends: normal completion, empty list,
\* missing or unparseable queries file, failure of the results write.
C15_ClientClosedAtEnd ==
  (pPc \in {"done", "exited"} /\ client # "new") => client = "closed"

\* The methods the switch of lines 60-109 has a case for.
SwitchCases ==
  {"find", "findone", "findbyid", "aggregate", "updateone", "updatemany",
   "replaceone", "deleteone", "deletemany", "countdocuments",
   "estimateddocumentcount", "distinct", "insertone", "insertmany"}

\* The requests sent for descriptor k.
RequestsOf(k) == {j \in 1..Len(dbLog) : dbLog[j].i = k}

\* C26 (as claimed): the operation explained for a descriptor is chosen by
\* its method alone, compared without regard to case, whatever its pattern:
\* an insert yields the informational marker and no request, an aggregate
\* is never explained as a find, and a method without a case yields an
\* UnsupportedMethod error and no request.
C26_DispatchByMethod ==
  \A k \in 1..Len(results) :
    LET q == queries[k]
        r == results[k]
        m == toLowerCase(q.method)
    IN
    (Truthy(q.collection) /\ ~Truthy(r.error)) =>
      /\ m \in {"insertone", "insertmany"} =>
            r.explain.kind = "info" /\ RequestsOf(k) = {}
      /\ m = "aggregate" =>
            \A j \in RequestsOf(k) : dbLog[j].req.op = "aggregate"
      /\ m \notin SwitchCases =>
            /\ r.explain.kind = "error"
            /\ ErrorKind(r.explain.error) = "UnsupportedMethod"
            /\ RequestsOf(k) = {}

\* C27: at most one request is in flight; a request is sent only when the
\* requests before it have settled and their records have been pushed, and
\* requests are sent in the order of the descriptor list.
C27_OneRequestInFlight ==
  /\ Len(pending) <= 1
  /\ \A j \in 1..Len(dbLog) :
       \/ dbLog[j].i <= Len(results)
       \/ /\ pending # <<>>
          /\ j = Len(dbLog)
          /\ dbLog[j].i = Len(results) + 1
          /\ pending[1].i = dbLog[j].i
  /\ \A j, k \in 1..Len(dbLog) : j < k => dbLog[j].i < dbLog[k].i

\* C27 witness: the second request is in flight, after the first one settled
\* and its record was pushed.
C27_Witness ==
  /\ Len(dbLog) = 2
  /\ Len(pending) = 1
  /\ pending[1].i = 2
  /\ Len(results) = 1

\* The arguments written in a captured argument text that holds several,
\* in the order of the call.
WrittenArguments(raw) ==
  CASE raw = RawUpd -> <<Obj(RawLit), Obj("{ $set: { b: 2 } }")>>
    [] raw = RawDist -> <<Str("status"), Obj(RawLit)>>
    [] OTHER -> <<>>

\* The filter among them: the second argument of a distinct, the first of
\* an update or replace.
WrittenFilter(q) ==
  IF toLowerCase(q.method) = "distinct" THEN WrittenArguments(q.rawQuery)[2]
  ELSE WrittenArguments(q.rawQuery)[1]

\* C25 (as claimed): for an update, replace or distinct descriptor whose
\* argument text holds several comma-separated arguments, the find that is
\* explained is given the call's filter argument.
C25_FilterArgumentExplained ==
  \A j \in 1..Len(dbLog) :
    LET q == queries[dbLog[j].i] IN
    ( /\ q.pattern # "chained"
      /\ toLowerCase(q.method) \in {"updateone", "updatemany", "replaceone", "distinct"}
      /\ Len(WrittenArguments(q.rawQuery)) > 1 )
    => /\ dbLog[j].req.op = "find"
       /\ dbLog[j].req.filter = WrittenFilter(q)


(***************************************************************************)
(* analyze-explains.js: thresholds, summarizeExplain, analyzePerformance   *)
(***************************************************************************)
\* lines 10-15, for the environment e
ThresholdsOf(e) ==
  [MAX_EXECUTION_TIME_MS |-> OrDefault(parseInt(e.MAX_EXECUTION_TIME_MS), Num(100, 1)).num,
   WARN_EXECUTION_TIME_MS |-> OrDefault(parseInt(e.WARN_EXECUTION_TIME_MS), Num(50, 1)).num,
   MAX_DOCS_EXAMINED |-> OrDefault(parseInt(e.MAX_DOCS_EXAMINED), Num(500, 1)).num,
   MIN_QUERY_EFFICIENCY |-> OrDefault(parseFloat(e.MIN_QUERY_EFFICIENCY), Num(1, 10))]

THRESHOLDS == ThresholdsOf(env)

Has(o, k) == k \in DOMAIN o

\* A statistics object lists the fields it holds as null under "nulls"; such
\* a field has no number.
\* o.k without the || 0: undefined or null, a value that is not a count (-1)
StatWithoutDefault(o, k) == IF Has(o, k) THEN o[k] ELSE -1

\* o.k || 0 for a statistics field: absent, null and 0 all give 0
NumberOrZero(o, k) == IF Has(o, k) THEN o[k] ELSE 0

\* A plan that is undefined (explain?.queryPlanner?.winningPlan of an object
\* without one, or a shard without a winningPlan).
NoPlan == [undefined |-> TRUE]
IsNoPlan(plan) == Has(plan, "undefined")

RECURSIVE findIndexName(_)
RECURSIVE FirstIndexName(_, _)

\* the for loops of lines 32-35 and 40-43 over a list of plans: the first
\* truthy findIndexName, or null
FirstIndexName(plans, k) ==
  IF k > Len(plans) THEN Undefined
  ELSE IF Truthy(findIndexName(plans[k])) THEN findIndexName(plans[k])
  ELSE FirstIndexName(plans, k + 1)

ShardPlans(plan) ==
  [k \in 1..Len(plan.shards) |->
     IF Has(plan.shards[k], "winningPlan") THEN plan.shards[k].winningPlan ELSE NoPlan]

\* lines 27-46 (null is Undefined here)
findIndexName(plan) ==
  IF IsNoPlan(plan) THEN Undefined
  ELSE IF Has(plan, "indexName") /\ Truthy(plan.indexName) THEN plan.indexName
  ELSE IF Has(plan, "inputStage") THEN findIndexName(plan.inputStage)
  ELSE IF Has(plan, "shards") /\ Truthy(FirstIndexName(ShardPlans(plan), 1))
    THEN FirstIndexName(ShardPlans(plan), 1)
  ELSE IF Has(plan, "inputStages") /\ Len(plan.inputStages) > 0
    THEN FirstIndexName(plan.inputStages, 1)
  ELSE Undefined

RECURSIVE findStage(_)
\* lines 48-55
findStage(plan) ==
  IF IsNoPlan(plan) THEN Undefined
  ELSE IF Has(plan, "stage") /\ Truthy(plan.stage) THEN plan.stage
  ELSE IF Has(plan, "shards") /\ Len(plan.shards) > 0
    THEN findStage(ShardPlans(plan)[1])
  ELSE Undefined

WinningPlan(explain) ==
  IF Has(explain, "queryPlanner") /\ Has(explain.queryPlanner, "winningPlan")
  THEN explain.queryPlanner.winningPlan
  ELSE NoPlan

\* lines 19-68
summarizeExplain(explain) ==
  LET stats == IF Has(explain, "executionStats") THEN explain.executionStats
               ELSE [none |-> TRUE]
      idx == findIndexName(WinningPlan(explain))
      stg == findStage(WinningPlan(explain))
  IN [totalMillis |-> NumberOrZero(stats, "executionTimeMillis"),
      indexUsed |-> IF Truthy(idx) THEN idx ELSE "None",
      stage |-> IF Truthy(stg) THEN stg ELSE "Unknown",
      docsExamined |-> NumberOrZero(stats, "totalDocsExamined"),
      docsReturned |-> NumberOrZero(stats, "totalDocsReturned"),
      keysExamined |-> NumberOrZero(stats, "totalKeysExamined")]

IssueSlow == "Slow query"
IssueNoIndex == "No index used - performs collection scan"
IssueHighDocs == "High document examination"
WarnEmptyCollection == "Query executed on empty collection - no performance issues to analyze"
WarnModerate == "Moderate execution time"
WarnLowEfficiency == "Low query efficiency"
WarnReturnedNone == "Query examined documents but returned none - possible inefficient query"
SuggestTestData == "Consider adding test data to validate query performance"
SuggestOptimize == "Consider optimizing query filters and adding appropriate indexes"
SuggestIndex == "Consider adding an appropriate index for this query"
SuggestSelective == "Query examines too many documents - consider more selective filters or better indexing"
SuggestFewReturned == "Query examines many documents but returns few - consider more selective filters"
SuggestReview == "Review query filters to ensure they match actual data or add appropriate indexes"

\* line 88, with a maximum of 100 whatever the configuration says
SlowQueryFixedThreshold(totalMillis, T) == totalMillis > 100

\* line 88
SlowQuery(totalMillis, T) == totalMillis > T.MAX_EXECUTION_TIME_MS

\* lines 109-110 with <= for <
LowEfficiencyOrEqual(docsReturned, docsExamined, T) ==
  docsReturned * T.MIN_QUERY_EFFICIENCY.den <= T.MIN_QUERY_EFFICIENCY.num * docsExamined

\* lines 109-110: docsReturned / docsExamined < MIN_QUERY_EFFICIENCY, with
\* docsExamined > 0 and the threshold num/den (den > 0). The quotient of two
\* integers and the threshold's decimal text round to the same double when
\* they are equal, so the comparison of the doubles is that of the fractions.
LowEfficiency(docsReturned, docsExamined, T) ==
  docsReturned * T.MIN_QUERY_EFFICIENCY.den < T.MIN_QUERY_EFFICIENCY.num * docsExamined

If(c, x) == IF c THEN <<x>> ELSE <<>>

\* line 91 as an if of its own, not the else of the slow-query rule
ModerateWithoutElse(slow, totalMillis, T) == totalMillis > T.WARN_EXECUTION_TIME_MS

\* lines 88-93: the else-if branch of the execution time rule
Moderate(slow, totalMillis, T) == ~slow /\ totalMillis > T.WARN_EXECUTION_TIME_MS

\* lines 88-105 as an else-if chain: the first triggered rule only
IssuesFirstMatch(slow, noIndex, highDocs) ==
  IF slow THEN <<IssueSlow>>
  ELSE IF noIndex THEN <<IssueNoIndex>>
  ELSE If(highDocs, IssueHighDocs)

\* lines 88-105: the issues pushed by the three independent if statements
Issues(slow, noIndex, highDocs) ==
  If(slow, IssueSlow) \o If(noIndex, IssueNoIndex) \o If(highDocs, IssueHighDocs)

\* lines 70-128 under the thresholds T
analyzeWith(result, T) ==
  IF result.stage = "EOF"
  THEN [performanceScore |-> "Good", issues |-> <<>>,
        warnings |-> <<WarnEmptyCollection>>,
        suggestions |-> <<SuggestTestData>>]
  ELSE
    LET slow == SlowQuery(result.totalMillis, T)
        moderate == Moderate(slow, result.totalMillis, T)
        noIndex == result.indexUsed = "None" \/ result.stage = "COLLSCAN"
        highDocs == result.docsExamined > T.MAX_DOCS_EXAMINED
        lowEff == /\ result.docsExamined > 0 /\ result.docsReturned > 0
                  /\ LowEfficiency(result.docsReturned, result.docsExamined, T)
        none == result.docsExamined > 0 /\ result.docsReturned = 0
        issues == Issues(slow, noIndex, highDocs)
        warnings == If(moderate, WarnModerate) \o If(lowEff, WarnLowEfficiency)
                      \o If(none, WarnReturnedNone)
        suggestions == If(slow, SuggestOptimize) \o If(noIndex, SuggestIndex)
                         \o If(highDocs, SuggestSelective)
                         \o If(lowEff, SuggestFewReturned) \o If(none, SuggestReview)
    IN [performanceScore |-> IF Len(issues) = 0
                             THEN (IF Len(warnings) = 0 THEN "Good" ELSE "Fair")
                             ELSE "Poor",
        issues |-> issues, warnings |-> warnings, suggestions |-> suggestions]

analyzePerformance(result) == analyzeWith(result, THRESHOLDS)


(***************************************************************************)
(* The classifier on one raw plan                                          *)
(***************************************************************************)
IxScan == [stage |-> "IXSCAN", indexName |-> "a_1"]
CollScan == [stage |-> "COLLSCAN"]

WinningPlans ==
  {CollScan,
   [stage |-> "EOF"],
   [stage |-> "FETCH", inputStage |-> IxScan],
   [stage |-> "LIMIT", inputStage |-> [stage |-> "FETCH", inputStage |-> IxScan]],
   [stage |-> "LIMIT", inputStage |-> CollScan],
   [stage |-> "OR", inputStages |-> <<CollScan, IxScan>>],
   [shards |-> <<[shardName |-> "s0"], [winningPlan |-> [stage |-> "FETCH", inputStage |-> IxScan]]>>],
   [stage |-> "SORT", inputStage |-> CollScan, inputStages |-> <<IxScan>>]}

ExecutionStats ==
  {[executionTimeMillis |-> t, totalDocsExamined |-> e, totalDocsReturned |-> r,
    totalKeysExamined |-> 0] :
      t \in {0, 45, 60, 120, 250}, e \in {0, 100, 600}, r \in {0, 9, 10, 100}}
  \cup {[totalDocsExamined |-> 100, totalDocsReturned |-> 100],
        [totalDocsExamined |-> 100, totalDocsReturned |-> 100,
         nulls |-> {"executionTimeMillis", "totalKeysExamined"}]}

Explains ==
  {[kind |-> "plan", executionStats |-> st, queryPlanner |-> [winningPlan |-> wp]] :
     st \in ExecutionStats, wp \in WinningPlans}
  \cup {PlanResult, ErrResult(MsgNotArray), InfoResult(MsgInsertInfo), NoExplain,
        [kind |-> "plan", queryPlanner |-> [winningPlan |-> IxScan]],
        [kind |-> "plan", executionStats |-> [nulls |-> {"totalDocsExamined"}],
         queryPlanner |-> [none |-> TRUE]]}

\* Texts the threshold variables are set to: "40", "200", "0", "abc", "12.7"
IntEnvValues == {EnvUnset, EnvNum(40, 1), EnvNum(200, 1), EnvNum(0, 1), EnvNaN, EnvNum(127, 10)}
\* "0.5", "0", "abc"
FloatEnvValues == {EnvUnset, EnvNum(1, 2), EnvNum(0, 1), EnvNaN}

ClassifyEnvs ==
  {[MAX_EXECUTION_TIME_MS |-> a, WARN_EXECUTION_TIME_MS |-> b,
    MAX_DOCS_EXAMINED |-> c, MIN_QUERY_EFFICIENCY |-> d] :
      a \in IntEnvValues, b \in {EnvUnset, EnvNum(30, 1)},
      c \in {EnvUnset, EnvNum(50, 1)}, d \in FloatEnvValues}

InitClassify ==
  /\ env \in ClassifyEnvs
  /\ cPc = "input"
  /\ cExplain \in Explains
  /\ cSummary = NoSummary
  /\ cVerdict = NoVerdict
  /\ IdleProfiler
  /\ IdleAnalyze
  /\ IdleExtract
  /\ IdleTools

\* analyzePerformance(summarizeExplain(explain)), lines 164, 200-201, 291-292
Classify ==
  /\ cPc = "input"
  /\ cSummary' = summarizeExplain(cExplain)
  /\ cVerdict' = analyzePerformance(summarizeExplain(cExplain))
  /\ cPc' = "done"
  /\ UNCHANGED <<env, cExplain>>
  /\ ClassifyOnly

NextClassify == Classify

SpecClassify == InitClassify /\ [][NextClassify]_vars

Contains(seq, x) == \E k \in 1..Len(seq) : seq[k] = x

\* C4 (as claimed): the score is Poor iff there are issues, Fair iff there
\* are no issues but warnings, Good iff there are neither.
C4_ScoreFromLists ==
  cPc = "done" =>
    /\ cVerdict.performanceScore = "Poor" <=> Len(cVerdict.issues) > 0
    /\ cVerdict.performanceScore = "Fair" <=>
         (Len(cVerdict.issues) = 0 /\ Len(cVerdict.warnings) > 0)
    /\ cVerdict.performanceScore = "Good" <=>
         (Len(cVerdict.issues) = 0 /\ Len(cVerdict.warnings) = 0)

\* C5 (as claimed): an EOF plan is Good with no issues, no warnings and the
\* single suggestion to add test data, whatever its other metrics are.
C5_EmptyCollectionShortCircuit ==
  (cPc = "done" /\ cSummary.stage = "EOF") =>
    /\ cVerdict.performanceScore = "Good"
    /\ cVerdict.issues = <<>>
    /\ cVerdict.warnings = <<>>
    /\ cVerdict.suggestions = <<SuggestTestData>>

\* docsReturned / docsExamined < MIN_QUERY_EFFICIENCY, as fractions
BelowEfficiency(m) ==
  m.docsReturned * THRESHOLDS.MIN_QUERY_EFFICIENCY.den
    < THRESHOLDS.MIN_QUERY_EFFICIENCY.num * m.docsExamined

\* C6 (as claimed): the low-efficiency warning is raised only for a ratio
\* strictly below the threshold, and for every such ratio with both counts
\* positive.
C6_EfficiencyBoundary_Original ==
  cPc = "done" =>
    /\ Contains(cVerdict.warnings, WarnLowEfficiency) => BelowEfficiency(cSummary)
    /\ ( /\ cSummary.docsExamined > 0 /\ cSummary.docsReturned > 0
         /\ BelowEfficiency(cSummary) )
       => Contains(cVerdict.warnings, WarnLowEfficiency)

\* C6 (amended): the low-efficiency warning is raised only for a ratio
\* strictly below the threshold (never at equality), and for every such ratio
\* with both counts positive unless the stage is EOF, where no rule runs.
C6_EfficiencyBoundary ==
  cPc = "done" =>
    /\ Contains(cVerdict.warnings, WarnLowEfficiency) =>
         (BelowEfficiency(cSummary) /\ cSummary.stage # "EOF")
    /\ ( /\ cSummary.stage # "EOF"
         /\ cSummary.docsExamined > 0 /\ cSummary.docsReturned > 0
         /\ BelowEfficiency(cSummary) )
       => Contains(cVerdict.warnings, WarnLowEfficiency)

\* C6 witness: examined 100, returned 10, threshold 0.1 (the default): the
\* ratio equals the threshold and the classified plan has no such warning.
C6_Witness ==
  /\ cPc = "done"
  /\ cSummary.stage # "EOF"
  /\ cSummary.docsExamined = 100 /\ cSummary.docsReturned = 10
  /\ THRESHOLDS.MIN_QUERY_EFFICIENCY = Num(1, 10)
  /\ ~Contains(cVerdict.warnings, WarnLowEfficiency)

\* The thresholds with MAX_EXECUTION_TIME_MS set to the text e, the rest kept.
LoweredThresholds(e) == ThresholdsOf([env EXCEPT !.MAX_EXECUTION_TIME_MS = e])

\* C7 (as claimed): a verdict that is not Poor becomes Poor under any
\* maxExecutionTimeMs strictly below the plan's execution time.
C7_ThresholdSensitivity_Original ==
  cPc = "done" =>
    \A e \in IntEnvValues :
      ( /\ cVerdict.performanceScore # "Poor"
        /\ LoweredThresholds(e).MAX_EXECUTION_TIME_MS < cSummary.totalMillis )
      => analyzeWith(cSummary, LoweredThresholds(e)).performanceScore = "Poor"

\* C7 (amended): the same for every plan whose stage is not EOF.
C7_ThresholdSensitivity ==
  cPc = "done" =>
    \A e \in IntEnvValues :
      ( /\ cSummary.stage # "EOF"
        /\ cVerdict.performanceScore # "Poor"
        /\ LoweredThresholds(e).MAX_EXECUTION_TIME_MS < cSummary.totalMillis )
      => analyzeWith(cSummary, LoweredThresholds(e)).performanceScore = "Poor"

\* C7 witness: a plan classified Fair at 60 ms under the default maximum of
\* 100 ms, for which a maximum of 40 ms can be configured.
C7_Witness ==
  /\ cPc = "done"
  /\ cSummary.stage # "EOF"
  /\ cVerdict.performanceScore = "Fair"
  /\ cSummary.totalMillis = 60
  /\ THRESHOLDS.MAX_EXECUTION_TIME_MS = 100
  /\ LoweredThresholds(EnvNum(40, 1)).MAX_EXECUTION_TIME_MS = 40
  /\ analyzeWith(cSummary, LoweredThresholds(EnvNum(40, 1))).performanceScore = "Poor"

\* The number the raw plan holds for a statistics field, if it holds one.
HoldsStat(explain, k) ==
  Has(explain, "executionStats") /\ Has(explain.executionStats, k)

StatFields ==
  <<<<"totalMillis", "executionTimeMillis">>, <<"docsExamined", "totalDocsExamined">>,
    <<"docsReturned", "totalDocsReturned">>, <<"keysExamined", "totalKeysExamined">>>>

\* C16: for every raw plan, an undefined one or one without statistics or
\* with null statistics fields included, the four numeric fields of the
\* summary are numbers, 0 for what the plan omits and the plan's number
\* otherwise, and indexUsed and stage are texts ("None", "Unknown" when not
\* found), never null.
C16_SummaryDefaults ==
  cPc = "done" =>
    /\ \A k \in 1..Len(StatFields) :
         LET f == StatFields[k] IN
         /\ cSummary[f[1]] \in Nat
         /\ cSummary[f[1]] =
              (IF HoldsStat(cExplain, f[2]) THEN cExplain.executionStats[f[2]] ELSE 0)
    /\ Truthy(cSummary.indexUsed)
    /\ Truthy(cSummary.stage)
    /\ Truthy(findIndexName(WinningPlan(cExplain))) \/ cSummary.indexUsed = "None"
    /\ Truthy(findStage(WinningPlan(cExplain))) \/ cSummary.stage = "Unknown"

\* C16 witness: a plan whose statistics hold two counts and two nulls, and
\* an undefined plan, have been summarised.
C16_Witness ==
  /\ cPc = "done"
  /\ \/ /\ HoldsStat(cExplain, "totalDocsExamined")
        /\ Has(cExplain.executionStats, "nulls")
        /\ cSummary.totalMillis = 0 /\ cSummary.docsExamined = 100
     \/ /\ cExplain = NoExplain
        /\ cSummary.indexUsed = "None" /\ cSummary.stage = "Unknown"

\* The text of an environment variable is a non-negative integer.
ValidCount(e) == e.set /\ e.numeric /\ e.den = 1 /\ e.num >= 0

\* The text of an environment variable is a fraction in [0, 1].
ValidFraction(e) == e.set /\ e.numeric /\ e.num >= 0 /\ e.num <= e.den

NotNumeric(e) == ~e.set \/ ~e.numeric

\* C17 (as claimed): a threshold equals the value of its environment
\* variable whenever that is a valid value in range (0 included), and the
\* default 100 / 50 / 500 / 0.1 when the variable is unset or not numeric.
C17_ThresholdsFromEnv ==
  /\ \A k \in {"MAX_EXECUTION_TIME_MS", "WARN_EXECUTION_TIME_MS", "MAX_DOCS_EXAMINED"} :
       /\ ValidCount(env[k]) => THRESHOLDS[k] = env[k].num
       /\ NotNumeric(env[k]) => THRESHOLDS[k] = ThresholdsOf(EnvDefaults)[k]
  /\ ValidCount(env.MAX_DOCS_EXAMINED) => MAX_DOCS_EXAMINED = env.MAX_DOCS_EXAMINED.num
  /\ ValidFraction(env.MIN_QUERY_EFFICIENCY) =>
       THRESHOLDS.MIN_QUERY_EFFICIENCY.num * env.MIN_QUERY_EFFICIENCY.den
         = env.MIN_QUERY_EFFICIENCY.num * THRESHOLDS.MIN_QUERY_EFFICIENCY.den
  /\ NotNumeric(env.MIN_QUERY_EFFICIENCY) => THRESHOLDS.MIN_QUERY_EFFICIENCY = Num(1, 10)
  /\ ThresholdsOf(EnvDefaults) =
       [MAX_EXECUTION_TIME_MS |-> 100, WARN_EXECUTION_TIME_MS |-> 50,
        MAX_DOCS_EXAMINED |-> 500, MIN_QUERY_EFFICIENCY |-> Num(1, 10)]

\* C20: for a plan that is not an empty-collection one the issues are, in
\* this order, "slow query" when executionTime > maxExecutionTimeMs, "no
\* index used" when the index is "None" or the stage is COLLSCAN, "high
\* document examination" when documentsExamined > maxDocsExamined: one issue
\* per triggered rule, none suppressed by an earlier one.
C20_IssuesInRuleOrder ==
  (cPc = "done" /\ cSummary.stage # "EOF") =>
    cVerdict.issues =
      (IF cSummary.totalMillis > THRESHOLDS.MAX_EXECUTION_TIME_MS
       THEN <<IssueSlow>> ELSE <<>>)
      \o (IF cSummary.indexUsed = "None" \/ cSummary.stage = "COLLSCAN"
          THEN <<IssueNoIndex>> ELSE <<>>)
      \o (IF cSummary.docsExamined > THRESHOLDS.MAX_DOCS_EXAMINED
          THEN <<IssueHighDocs>> ELSE <<>>)

\* C20 witness: a collection scan of 600 documents in 250 ms under the
\* default thresholds triggers all three rules.
C20_Witness ==
  /\ cPc = "done"
  /\ env = EnvDefaults
  /\ cSummary.stage = "COLLSCAN"
  /\ cSummary.totalMillis = 250
  /\ cSummary.docsExamined = 600
  /\ cVerdict.issues = <<IssueSlow, IssueNoIndex, IssueHighDocs>>

\* C21: for a plan that is not an empty-collection one the warnings hold
\* "moderate execution time" iff warnExecutionTimeMs < executionTime <=
\* maxExecutionTimeMs (so never beside the slow-query issue), "low
\* efficiency" iff both counts are positive and returned/examined is below
\* minQueryEfficiency, "returned none" iff documents were examined and none
\* returned; the last two never occur together.
C21_WarningRules ==
  (cPc = "done" /\ cSummary.stage # "EOF") =>
    /\ Contains(cVerdict.warnings, WarnModerate) <=>
         ( /\ THRESHOLDS.WARN_EXECUTION_TIME_MS < cSummary.totalMillis
           /\ cSummary.totalMillis <= THRESHOLDS.MAX_EXECUTION_TIME_MS )
    /\ ~(Contains(cVerdict.warnings, WarnModerate) /\ Contains(cVerdict.issues, IssueSlow))
    /\ Contains(cVerdict.warnings, WarnLowEfficiency) <=>
         ( /\ cSummary.docsExamined > 0 /\ cSummary.docsReturned > 0
           /\ BelowEfficiency(cSummary) )
    /\ Contains(cVerdict.warnings, WarnReturnedNone) <=>
         (cSummary.docsExamined > 0 /\ cSummary.docsReturned = 0)
    /\ ~( /\ Contains(cVerdict.warnings, WarnLowEfficiency)
          /\ Contains(cVerdict.warnings, WarnReturnedNone) )

\* C21 witness: 60 ms under the defaults (50 < 60 <= 100) with 100
\* documents examined and none returned: both warnings, in this order.
C21_Witness ==
  /\ cPc = "done"
  /\ env = EnvDefaults
  /\ cSummary.stage # "EOF"
  /\ cSummary.totalMillis = 60
  /\ cSummary.docsExamined = 100 /\ cSummary.docsReturned = 0
  /\ cVerdict.warnings = <<WarnModerate, WarnReturnedNone>>

RECURSIVE IndexInOrder(_)
RECURSIVE FirstInOrder(_, _)

\* The first index name among the plans of a list from the k-th on, each
\* searched in the order of IndexInOrder.
FirstInOrder(plans, k) ==
  IF k > Len(plans) THEN Undefined
  ELSE IF Truthy(IndexInOrder(plans[k])) THEN IndexInOrder(plans[k])
  ELSE FirstInOrder(plans, k + 1)

\* The first index name of a plan in the search order: the node itself, the
\* input-stage chain, the shard sub-plans in order, the input-stages list in
\* order.
IndexInOrder(plan) ==
  IF IsNoPlan(plan) THEN Undefined
  ELSE IF Has(plan, "indexName") /\ Truthy(plan.indexName) THEN plan.indexName
  ELSE IF Has(plan, "inputStage") /\ Truthy(IndexInOrder(plan.inputStage))
    THEN IndexInOrder(plan.inputStage)
  ELSE IF Has(plan, "shards") /\ Truthy(FirstInOrder(ShardPlans(plan), 1))
    THEN FirstInOrder(ShardPlans(plan), 1)
  ELSE IF Has(plan, "inputStages") THEN FirstInOrder(plan.inputStages, 1)
  ELSE Undefined

\* C22 (as claimed): the index name of the summary is the first one found in
\* the order node, input-stage chain, shard sub-plans, input-stages list, and
\* "None" when no node of the plan carries one.
C22_IndexSearchOrder ==
  cPc = "done" =>
    LET first == IndexInOrder(WinningPlan(cExplain)) IN
    cSummary.indexUsed = (IF Truthy(first) THEN first ELSE "None")

RECURSIVE CarriesIndex(_)
\* Some node reachable from the plan through input-stage, shard sub-plan or
\* input-stages links carries an index name.
CarriesIndex(plan) ==
  /\ ~IsNoPlan(plan)
  /\ \/ Has(plan, "indexName") /\ Truthy(plan.indexName)
     \/ Has(plan, "inputStage") /\ CarriesIndex(plan.inputStage)
     \/ Has(plan, "shards")
          /\ \E k \in 1..Len(plan.shards) : CarriesIndex(ShardPlans(plan)[k])
     \/ Has(plan, "inputStages")
          /\ \E k \in 1..Len(plan.inputStages) : CarriesIndex(plan.inputStages[k])

\* C23 (as claimed): when any node reachable from the winning plan carries an
\* index name, the summary's index is not "None", also when the node with
\* the index sits in a shard branch or input-stages list beside an
\* index-less input stage.
C23_ReachableIndexFound ==
  (cPc = "done" /\ CarriesIndex(WinningPlan(cExplain))) => cSummary.indexUsed # "None"


(***************************************************************************)
(* analyze-explains.js: generatePRReport (130-268) and main (270-337)      *)
(***************************************************************************)
Count(seq, P(_)) == Cardinality({k \in 1..Len(seq) : P(seq[k])})

HasError(r) == Truthy(r.error)

ScoreOf(r) == analyzePerformance(summarizeExplain(r.explain)).performanceScore
IsGood(r) == CarriesPlan(r) /\ ScoreOf(r) = "Good"
IsFair(r) == CarriesPlan(r) /\ ScoreOf(r) = "Fair"
IsPoor(r) == CarriesPlan(r) /\ ScoreOf(r) = "Poor"

\* lines 181-242: the detail entry of record res at position index
DetailEntry(res, index) ==
  IF Truthy(res.error)
  THEN [entry |-> "Error", index |-> index, error |-> res.error]
  ELSE IF res.explain.kind = "undefined"
  THEN [entry |-> "No Analysis", index |-> index]
  ELSE [entry |-> "Performance", index |-> index,
        summary |-> summarizeExplain(res.explain),
        analysis |-> analyzePerformance(summarizeExplain(res.explain))]

\* generatePRReport: the counts of the Summary section, the Performance
\* Overview and the Detailed Query Analysis entries; with no successful
\* record the report ends after the Summary section (lines 156-159).
generatePRReport(rs) ==
  LET successfulQueries == Count(rs, CarriesPlan) IN
  IF successfulQueries = 0
  THEN [total |-> Len(rs), successful |-> 0, errors |-> Count(rs, HasError),
        noneAnalyzed |-> TRUE, good |-> 0, fair |-> 0, poor |-> 0, details |-> <<>>]
  ELSE [total |-> Len(rs), successful |-> successfulQueries,
        errors |-> Count(rs, HasError), noneAnalyzed |-> FALSE,
        good |-> Count(rs, IsGood), fair |-> Count(rs, IsFair),
        poor |-> Count(rs, IsPoor),
        details |-> [k \in 1..Len(rs) |-> DetailEntry(rs[k], k)]]

\* lines 281-306: the summary lines of one record
SummaryEntry(res) ==
  IF Truthy(res.error) THEN [line |-> "Error in query", error |-> res.error]
  ELSE IF res.explain.kind = "undefined" THEN [line |-> "No explain result"]
  ELSE [line |-> "Performance",
        summary |-> summarizeExplain(res.explain),
        analysis |-> analyzePerformance(summarizeExplain(res.explain))]

QDriver == Desc("loads", "find", RawLit, "mongodb-driver")
QAggregate == Desc("loads", "aggregate", RawLit, "mongodb-driver")
QInsert == Desc("loads", "insertOne", RawLit, "mongodb-driver")
QNoCollection == Desc(Undefined, "find", RawLit, "mongodb-driver")

PlanExplain(t, e, r, wp) ==
  [kind |-> "plan",
   executionStats |-> [executionTimeMillis |-> t, totalDocsExamined |-> e,
                       totalDocsReturned |-> r, totalKeysExamined |-> 0],
   queryPlanner |-> [winningPlan |-> wp]]

\* Records of a profiler-output.log: the three shapes run-profiler writes
\* (lines 149, 156-163, 167-173) and a record with neither explain nor error.
ResultRecords ==
  {MissingCollectionRecord(QNoCollection),
   CaughtRecord(QDriver, MsgBadName),
   ExplainRecord(QAggregate, ErrResult(MsgNotArray)),
   ExplainRecord(QInsert, InfoResult(MsgInsertInfo)),
   ExplainRecord(QDriver, PlanExplain(5, 100, 100, [stage |-> "FETCH", inputStage |-> IxScan])),
   ExplainRecord(QDriver, PlanExplain(60, 100, 100, [stage |-> "FETCH", inputStage |-> IxScan])),
   ExplainRecord(QDriver, PlanExplain(5, 100, 100, CollScan)),
   ExplainRecord(QDriver, PlanExplain(0, 0, 0, [stage |-> "EOF"])),
   [ExplainRecord(QDriver, NoExplain) EXCEPT !.pattern = Undefined]}

MaxResults == 2

InputFiles ==
  {[exists |-> FALSE, records |-> <<>>, appended |-> 0]}
  \cup {[exists |-> TRUE, records |-> rs, appended |-> 0] :
          rs \in SeqsUpTo(ResultRecords, MaxResults)}

InitAnalyze ==
  /\ env = EnvDefaults
  /\ inputFile \in InputFiles
  /\ aPc = "start"
  /\ summaryFile = <<>>
  /\ prReport = NoReport
  /\ aRuns = 1
  /\ IdleProfiler
  /\ IdleClassify
  /\ IdleExtract
  /\ IdleTools

\* lines 271-274: no input file: process.exit(1)
AnalyzeMissing ==
  /\ aPc = "start"
  /\ ~inputFile.exists
  /\ aPc' = "exited"
  /\ UNCHANGED <<env, inputFile, summaryFile, prReport, aRuns>>
  /\ AnalyzeOnly

\* line 276: the file is not JSON (a summary was appended to it): JSON.parse
\* throws, main rejects and line 339 exits 1
AnalyzeUnparseable ==
  /\ aPc = "start"
  /\ inputFile.exists /\ inputFile.appended > 0
  /\ aPc' = "exited"
  /\ UNCHANGED <<env, inputFile, summaryFile, prReport, aRuns>>
  /\ AnalyzeOnly

\* lines 276-316: read, summarise, write the summary and the PR report,
\* append the summary to the input file
Analyze ==
  /\ aPc = "start"
  /\ inputFile.exists /\ inputFile.appended = 0
  /\ summaryFile' = [k \in 1..Len(inputFile.records) |-> SummaryEntry(inputFile.records[k])]
  /\ prReport' = generatePRReport(inputFile.records)
  /\ inputFile' = [inputFile EXCEPT !.appended = @ + 1]
  /\ aPc' = "done"
  /\ UNCHANGED <<env, aRuns>>
  /\ AnalyzeOnly

MaxRuns == 2

\* the stage is started again on the files the last run left
RunAgain ==
  /\ aPc = "done"
  /\ aRuns < MaxRuns
  /\ aRuns' = aRuns + 1
  /\ aPc' = "start"
  /\ UNCHANGED <<env, inputFile, summaryFile, prReport>>
  /\ AnalyzeOnly

NextAnalyze ==
  \/ AnalyzeMissing
  \/ AnalyzeUnparseable
  \/ Analyze
  \/ RunAgain

SpecAnalyze == InitAnalyze /\ [][NextAnalyze]_vars

\* C30 (as claimed): a run of the analyze stage leaves the input file
\* holding the result list it read, so a second run on the same file ends
\* successfully with the summary and the report of the first run.
C30_SecondRunSucceeds ==
  /\ aPc = "done" => inputFile.appended = 0
  /\ (aRuns = 2 /\ aPc # "start") =>
       /\ aPc = "done"
       /\ summaryFile = [k \in 1..Len(inputFile.records) |->
                           SummaryEntry(inputFile.records[k])]
       /\ prReport = generatePRReport(inputFile.records)

\* C3 (as claimed): the rendered report has one detail entry per record,
\* every failed record is an explicit Error entry and is not counted as a
\* Good/Fair/Poor query, also when no record of the batch succeeded.
C3_FailedRecordsRendered ==
  (aPc = "done" /\ aRuns = 1) =>
    LET rs == inputFile.records IN
    /\ Len(prReport.details) = Len(rs)
    /\ \A k \in 1..Len(rs) :
         DescriptorFailed(rs[k]) => prReport.details[k].entry = "Error"
    /\ prReport.good + prReport.fair + prReport.poor
         <= Len(rs) - Count(rs, DescriptorFailed)

\* The record of an insert descriptor: explain is the { info } object.
IsInfoRecord(r) == r.explain.kind = "info"

\* C14 (as claimed): the record of an insert descriptor is an informational
\* marker in the summary and in the report: it is not an error entry, it is
\* not a summarised and classified entry, and it is not counted among the
\* successful, Good, Fair or Poor queries.
C14_InsertIsInformational ==
  (aPc = "done" /\ aRuns = 1) =>
    LET rs == inputFile.records IN
    /\ \A k \in 1..Len(rs) :
         IsInfoRecord(rs[k]) =>
           /\ summaryFile[k].line \notin {"Error in query", "Performance"}
           /\ k <= Len(prReport.details) =>
                prReport.details[k].entry \notin {"Error", "Performance"}
    /\ prReport.good + prReport.fair + prReport.poor
         <= Len(rs) - Count(rs, IsInfoRecord)


(***************************************************************************)
(* extract-queries.js: extractQueriesFromContent (24-126), main (128-164)  *)
(*                                                                         *)
(* A text is the sequence of its characters (identifiers are one element). *)
(* A source line holds one call-site: `db.collection('loads')` followed by *)
(* a chain of method calls, or `User` followed by one. No argument text    *)
(* holds a parenthesis, so each regular expression's [^)]* captures the    *)
(* whole argument.                                                         *)
(***************************************************************************)
Call(m, a) == [m |-> m, a |-> a]
DriverLine(chain) == [form |-> "driver", name |-> "db", coll |-> "loads", chain |-> chain]
ModelLine(chain) == [form |-> "model", name |-> "User", coll |-> Undefined, chain |-> chain]

TxtEmpty == <<>>
TxtObj0 == <<"{", "}">>
TxtObj0Spaced == <<" ", "{", "}", " ">>
TxtArr0 == <<"[", "]">>
TxtSpread == <<"{", ".", ".", ".", "f", "}">>
TxtFilter == <<"{", "a", "}">>
TxtSort == <<"{", "b", "}">>
TxtPipe == <<"[", "s", "]">>

IsSpace(c) == c = " "

RECURSIVE TrimStart(_)
TrimStart(t) == IF Len(t) > 0 /\ IsSpace(Head(t)) THEN TrimStart(Tail(t)) ELSE t

RECURSIVE TrimEnd(_)
TrimEnd(t) ==
  IF Len(t) > 0 /\ IsSpace(t[Len(t)]) THEN TrimEnd(SubSeq(t, 1, Len(t) - 1)) ELSE t

\* String.prototype.trim
Trim(t) == TrimEnd(TrimStart(t))

\* /\.{3}/.test(t) and t.includes('...')
HasEllipsis(t) ==
  \E k \in 1..Len(t) : k + 2 <= Len(t) /\ t[k] = "." /\ t[k + 1] = "." /\ t[k + 2] = "."

\* line 48: the direct-call rule's placeholder test
SkippedDirect(rawQuery) ==
  rawQuery = TxtEmpty \/ rawQuery = TxtObj0 \/ rawQuery = TxtArr0 \/ HasEllipsis(rawQuery)

\* lines 41-59 on one line: mongoDriverRegex matches a driver call-site with at
\* least one chained call; the greedy group of intermediate calls leaves the
\* LAST call as match[4] and match[5].
DirectMatches(line) ==
  IF line.form = "driver" /\ Len(line.chain) > 0
  THEN LET last == line.chain[Len(line.chain)]
           rawQuery == Trim(last.a)
       IN IF SkippedDirect(rawQuery) THEN <<>>
          ELSE <<[collection |-> line.coll, method |-> last.m, rawQuery |-> rawQuery,
                  pattern |-> "mongodb-driver", dbVar |-> line.name]>>
  ELSE <<>>

\* line 80: the chained rule's test of one call's argument
KeptPart(methodArgs) ==
  methodArgs # TxtEmpty /\ methodArgs # TxtObj0 /\ ~HasEllipsis(methodArgs)

\* queryParts[methodName] = methodArgs: a key written again keeps its place
PutPart(parts, name, args) ==
  IF \E k \in 1..Len(parts) : parts[k][1] = name
  THEN [k \in 1..Len(parts) |-> IF parts[k][1] = name THEN <<name, args>> ELSE parts[k]]
  ELSE Append(parts, <<name, args>>)

RECURSIVE QueryParts(_, _)
\* lines 76-83: the forEach over the first k calls of the chain
QueryParts(chain, k) ==
  IF k = 0 THEN <<>>
  ELSE IF KeptPart(Trim(chain[k].a))
    THEN PutPart(QueryParts(chain, k - 1), chain[k].m, Trim(chain[k].a))
  ELSE QueryParts(chain, k - 1)

RECURSIVE StringifyFrom(_, _)
StringifyFrom(parts, k) ==
  IF k > Len(parts) THEN <<>>
  ELSE (IF k > 1 THEN <<",">> ELSE <<>>)
       \o <<"\"", parts[k][1], "\"", ":", "\"">> \o parts[k][2] \o <<"\"">>
       \o StringifyFrom(parts, k + 1)

\* JSON.stringify(queryParts): {"find":"{a}","sort":"{b}"}
JSONStringify(parts) == <<"{">> \o StringifyFrom(parts, 1) \o <<"}">>

\* lines 62-95 on one line: chainedRegex matches every driver call-site
ChainedMatches(line) ==
  IF line.form = "driver" /\ Len(line.chain) > 0
  THEN LET queryParts == QueryParts(line.chain, Len(line.chain)) IN
       IF Len(queryParts) > 0
       THEN <<[collection |-> line.coll, method |-> line.chain[1].m,
               rawQuery |-> JSONStringify(queryParts),
               pattern |-> "chained", dbVar |-> line.name]>>
       ELSE <<>>
  ELSE <<>>

\* lines 110-112
mongoMethods ==
  {"find", "findOne", "findById", "aggregate", "updateOne", "updateMany",
   "deleteOne", "deleteMany", "insertOne", "insertMany", "countDocuments",
   "distinct", "replaceOne"}

\* line 103: the FIRST <word>.<word>(<args>) of the line: on a driver
\* call-site that is db.collection('loads')
ModelMatch(line) ==
  IF line.form = "driver"
  THEN [modelName |-> line.name, method |-> "collection", args |-> <<"'", line.coll, "'">>]
  ELSE [modelName |-> line.name, method |-> line.chain[1].m,
        args |-> Trim(line.chain[1].a)]

\* lines 99-123 on one line
MongooseMatches(line) ==
  LET mm == ModelMatch(line) IN
  IF mm.method \in mongoMethods /\ mm.args # TxtEmpty /\ mm.args # TxtObj0
     /\ ~HasEllipsis(mm.args)
  THEN <<[collection |-> toLowerCase(mm.modelName), method |-> mm.method,
          rawQuery |-> mm.args, pattern |-> "mongoose-model", dbVar |-> Undefined]>>
  ELSE <<>>

RuleMatches(line, rule) ==
  CASE rule = 1 -> DirectMatches(line)
    [] rule = 2 -> ChainedMatches(line)
    [] OTHER -> MongooseMatches(line)

\* lastIndex of a regular expression object when its literal is evaluated
\* (lines 28, 31: once per call of extractQueriesFromContent)
NewRegExpLastIndex == 0

RECURSIVE ExecAll(_, _, _)
\* while ((match = regex.exec(content)) !== null): every match of one rule
\* from position lastIndex on (positions are lines here), each with the line
\* it was found on
ExecAll(content, lastIndex, rule) ==
  IF lastIndex >= Len(content) THEN <<>>
  ELSE LET matches == RuleMatches(content[lastIndex + 1], rule)
       IN [k \in 1..Len(matches) |->
             [d |-> matches[k], line |-> lastIndex + 1, rule |-> rule]]
          \o ExecAll(content, lastIndex + 1, rule)

\* extractQueriesFromContent with the chained loop run before the direct one
ExtractTaggedChainedFirst(content) ==
  ExecAll(content, NewRegExpLastIndex, 2)
    \o ExecAll(content, NewRegExpLastIndex, 1)
    \o ExecAll(content, 0, 3)

\* extractQueriesFromContent, each descriptor with the place it came from
ExtractTagged(content) ==
  ExecAll(content, NewRegExpLastIndex, 1)
    \o ExecAll(content, NewRegExpLastIndex, 2)
    \o ExecAll(content, 0, 3)

extractQueriesFromContent(content) ==
  LET tagged == ExtractTagged(content)
  IN [k \in 1..Len(tagged) |-> tagged[k].d]

\* line 139: q.file = file
WithFile(d, path) ==
  [collection |-> d.collection, method |-> d.method, rawQuery |-> d.rawQuery,
   pattern |-> d.pattern, dbVar |-> d.dbVar, file |-> path]

RECURSIVE ScanFrom(_, _)
\* lines 133-145: the files from the k-th on; a file that cannot be read is
\* skipped with a warning
ScanFrom(files, k) ==
  IF k > Len(files) THEN <<>>
  ELSE LET tagged == ExtractTagged(files[k].content)
       IN (IF files[k].readable
           THEN [j \in 1..Len(tagged) |->
                   [q |-> WithFile(tagged[j].d, files[k].path), file |-> k,
                    line |-> tagged[j].line, rule |-> tagged[j].rule]]
           ELSE <<>>)
          \o ScanFrom(files, k + 1)

\* fs.appendFileSync in the place of line 154's fs.writeFileSync
appendFileSync(old, data) == old \o data

\* line 154: fs.writeFileSync replaces the file's content
writeFileSync(old, data) == data

SourceLines ==
  {DriverLine(<<Call("find", TxtFilter)>>),
   DriverLine(<<Call("find", TxtObj0)>>),
   DriverLine(<<Call("find", TxtObj0Spaced)>>),
   DriverLine(<<Call("find", TxtSpread)>>),
   DriverLine(<<Call("aggregate", TxtArr0)>>),
   DriverLine(<<Call("find", TxtObj0), Call("sort", TxtSort)>>),
   DriverLine(<<Call("find", TxtFilter), Call("toArray", TxtEmpty)>>),
   ModelLine(<<Call("find", TxtFilter)>>),
   ModelLine(<<Call("find", TxtObj0)>>),
   ModelLine(<<Call("find", TxtSpread)>>),
   ModelLine(<<Call("aggregate", TxtArr0)>>),
   ModelLine(<<Call("aggregate", TxtPipe)>>),
   ModelLine(<<Call("save", TxtFilter)>>)}

MaxFiles == 2
MaxLines == 2
MaxExtractRuns == 2

FilePaths == <<"a.js", "b.ts", "c.js", "d.js">>

\* The contents of at most f files holding at most n lines between them
RECURSIVE Contents(_, _)
Contents(f, n) ==
  IF f = 0 THEN {<<>>}
  ELSE {<<>>} \cup
       UNION {{<<c>> \o rest : rest \in Contents(f - 1, n - Len(c))} :
                c \in SeqsUpTo(SourceLines, n)}

\* The source trees: at most MaxFiles files holding at most MaxLines lines
\* between them; at most the first file is unreadable.
Trees ==
  {[k \in 1..Len(cs) |-> [path |-> FilePaths[k], content |-> cs[k],
                          readable |-> (k > 1 \/ r)]] :
     cs \in Contents(MaxFiles, MaxLines), r \in BOOLEAN}

InitExtract ==
  /\ tree \in Trees
  /\ eRuns = 0
  /\ allQueries = <<>>
  /\ origin = <<>>
  /\ outputFile = <<>>
  /\ outputs = <<>>
  /\ env = EnvDefaults
  /\ IdleProfiler
  /\ IdleClassify
  /\ IdleAnalyze
  /\ IdleTools

\* main, lines 128-164: one run of the extractor over the tree
ExtractMain ==
  /\ eRuns < MaxExtractRuns
  /\ LET scanned == ScanFrom(tree, 1)
         found == [k \in 1..Len(scanned) |-> scanned[k].q]
     IN /\ allQueries' = found
        /\ origin' = [k \in 1..Len(scanned) |->
                        [file |-> scanned[k].file, line |-> scanned[k].line,
                         rule |-> scanned[k].rule]]
        /\ outputFile' = writeFileSync(outputFile, found)
        /\ outputs' = Append(outputs, writeFileSync(outputFile, found))
  /\ eRuns' = eRuns + 1
  /\ UNCHANGED tree
  /\ ExtractOnly

NextExtract == ExtractMain

SpecExtract == InitExtract /\ [][NextExtract]_vars

\* A placeholder argument: exactly {} or [] or holding an elision marker
Placeholder(t) == t = TxtObj0 \/ t = TxtArr0 \/ HasEllipsis(t)

\* The argument text a descriptor's rule looked at on its call-site: the
\* captured (last) call's for the direct rule, the primary (first) call's for
\* the chained and the named-entity rules.
SiteArgument(o) ==
  LET line == tree[o.file].content[o.line] IN
  IF o.rule = 1 THEN Trim(line.chain[Len(line.chain)].a)
  ELSE Trim(line.chain[1].a)

\* C8 (as claimed): no descriptor of the output comes from a call-site whose
\* argument text is exactly {} or [] or contains an elision marker.
C8_NoPlaceholderDescriptor ==
  \A k \in 1..Len(origin) : ~Placeholder(SiteArgument(origin[k]))

\* The descriptors of file f in allQueries, without their file name.
PerFile(f) ==
  LET idx == SelectSeq([k \in 1..Len(allQueries) |-> k], LAMBDA k : origin[k].file = f)
  IN [j \in 1..Len(idx) |-> [allQueries[idx[j]] EXCEPT !.file = Undefined]]

ComesBefore(a, b) ==
  \/ a.file < b.file
  \/ a.file = b.file /\ a.rule < b.rule
  \/ a.file = b.file /\ a.rule = b.rule /\ a.line < b.line

\* C24: the output is the concatenation in file discovery order of each
\* file's descriptors, within a file the direct-call matches first, then the
\* chained ones, then the named-entity ones, each in match order; every
\* match of every rule on every line of a file that was read is in it once,
\* so a call-site matched by two rules yields two descriptors.
C24_OutputOrder ==
  eRuns > 0 =>
    /\ \A a, b \in 1..Len(origin) : a < b => ComesBefore(origin[a], origin[b])
    /\ \A f \in 1..Len(tree) : \A l \in 1..Len(tree[f].content) : \A r \in 1..3 :
         LET at == {k \in 1..Len(origin) : origin[k] = [file |-> f, line |-> l, rule |-> r]}
             matches == RuleMatches(tree[f].content[l], r)
         IN /\ Cardinality(at) = (IF tree[f].readable THEN Len(matches) ELSE 0)
            /\ \A k \in at : allQueries[k] = WithFile(matches[1], tree[f].path)

\* C24 witness: one file of two lines, each a call-site that the direct and
\* the chained rule both match: four descriptors, the two direct ones first.
C24_Witness ==
  /\ eRuns > 0
  /\ Len(tree) = 1
  /\ Len(allQueries) = 4
  /\ [k \in 1..4 |-> origin[k].rule] = <<1, 1, 2, 2>>
  /\ [k \in 1..4 |-> origin[k].line] = <<1, 2, 1, 2>>
  /\ allQueries[1].pattern = "mongodb-driver" /\ allQueries[3].pattern = "chained"


(***************************************************************************)
(* load-data.js: loadFile (110-213) on one data file                       *)
(*                                                                         *)
(* Documents are counted, not told apart: the collection is the number of  *)
(* documents it held before the run and still holds, and the number the    *)
(* run inserted.                                                           *)
(***************************************************************************)
\* line 178
batchSize == 1000

MaxDocs == 2500

\* Texts of process.env.FORCE_RELOAD (Undefined: not set)
ForceReloadTexts == {Undefined, "", "true", "TRUE", "y", "yes", "Y", "YES", "n", "false"}

\* What the user types at the prompt of line 166
Answers == {"", "y", "Yes", "n"}

DataFiles ==
  {[nameOk |-> FALSE, kind |-> "array", docs |-> 1],
   [nameOk |-> TRUE, kind |-> "invalid", docs |-> 0],
   [nameOk |-> TRUE, kind |-> "object", docs |-> 1]}
  \cup {[nameOk |-> TRUE, kind |-> "array", docs |-> n] :
          n \in {0, 1, batchSize, batchSize + 1, MaxDocs}}

\* lines 118-121, 135-154: the file is loaded: its name has a database and a
\* collection part, it parses, and it holds at least one document
Loadable(f) == f.nameOk /\ f.kind # "invalid" /\ f.docs > 0

\* lines 314-333: without a terminal the answer is 'n'
askForConfirmation(isTTY, answer) == IF isTTY THEN answer ELSE "n"

\* line 166: process.env.FORCE_RELOAD || await askForConfirmation(...)
Confirmation(force, isTTY, answer) ==
  IF Truthy(force) THEN force ELSE askForConfirmation(isTTY, answer)

\* line 168
Confirmed(confirmation) ==
  toLowerCase(confirmation) = "y" \/ toLowerCase(confirmation) = "yes"

Min(a, b) == IF a < b THEN a ELSE b

InitLoad ==
  /\ forceReload \in ForceReloadTexts
  /\ lFile \in DataFiles
  /\ lColl \in {[before |-> n, inserted |-> 0] : n \in {0, 3}}
  /\ lPc = "start"
  /\ lI = 0
  /\ lConfirmation = Undefined
  /\ env = EnvDefaults
  /\ IdleProfiler
  /\ IdleClassify
  /\ IdleAnalyze
  /\ IdleExtract
  /\ IdleFind
  /\ IdlePipeline

\* lines 118-121, 141-144, 151-154: the file is skipped
LoadRejectFile ==
  /\ lPc = "start"
  /\ ~Loadable(lFile)
  /\ lPc' = "returned"
  /\ UNCHANGED <<forceReload, lFile, lColl, lI, lConfirmation>>
  /\ LoadOnly

\* lines 162-163: the collection is empty
LoadIntoEmpty ==
  /\ lPc = "start"
  /\ Loadable(lFile)
  /\ lColl.before = 0
  /\ lPc' = "insert"
  /\ lI' = 0
  /\ UNCHANGED <<forceReload, lFile, lColl, lConfirmation>>
  /\ LoadOnly

\* lines 162-175: the collection holds documents: clear it when confirmed,
\* skip it otherwise
LoadConfirm ==
  /\ lPc = "start"
  /\ Loadable(lFile)
  /\ lColl.before > 0
  /\ \E isTTY \in BOOLEAN, answer \in Answers :
       LET confirmation == Confirmation(forceReload, isTTY, answer) IN
       /\ lConfirmation' = confirmation
       /\ IF Confirmed(confirmation)
          THEN /\ lColl' = [before |-> 0, inserted |-> 0]
               /\ lPc' = "insert"
          ELSE /\ lColl' = lColl
               /\ lPc' = "returned"
  /\ lI' = 0
  /\ UNCHANGED <<forceReload, lFile>>
  /\ LoadOnly

\* lines 181-187: one batch is inserted
LoadInsertBatch ==
  /\ lPc = "insert"
  /\ lI < lFile.docs
  /\ lColl' = [lColl EXCEPT !.inserted = @ + Min(batchSize, lFile.docs - lI)]
  /\ lI' = lI + batchSize
  /\ UNCHANGED <<forceReload, lFile, lPc, lConfirmation>>
  /\ LoadOnly

\* line 183 throws (ordered: false, the documents that did not fail are in,
\* here none or all but one); the catch of lines 211-213 logs the failure
LoadInsertFails ==
  /\ lPc = "insert"
  /\ lI < lFile.docs
  /\ \E n \in {0, Min(batchSize, lFile.docs - lI) - 1} :
       lColl' = [lColl EXCEPT !.inserted = @ + n]
  /\ lPc' = "failed"
  /\ UNCHANGED <<forceReload, lFile, lI, lConfirmation>>
  /\ LoadOnly

\* lines 189-209: every batch is in; the basic indexes are created
LoadIndexes ==
  /\ lPc = "insert"
  /\ lI >= lFile.docs
  /\ lPc' = "done"
  /\ UNCHANGED <<forceReload, lFile, lColl, lI, lConfirmation>>
  /\ LoadOnly

NextLoad ==
  \/ LoadRejectFile
  \/ LoadIntoEmpty
  \/ LoadConfirm
  \/ LoadInsertBatch
  \/ LoadInsertFails
  \/ LoadIndexes

SpecLoad == InitLoad /\ [][NextLoad]_vars

\* A value that asks for the reload: true, y or yes in any case.
Forcing(text) == toLowerCase(text) \in {"true", "y", "yes"}

\* C18 (as claimed): with FORCE_RELOAD=true a loadable file is never skipped
\* for the documents its collection holds: the collection is cleared and,
\* when loadFile is through, holds the file's documents and nothing else;
\* with a confirmation that is neither a forcing value nor a yes, the
\* documents of the collection are left alone and nothing is inserted.
C18_ForcedReload ==
  /\ (forceReload = "true" /\ Loadable(lFile)) =>
       /\ lPc # "returned"
       /\ lPc = "done" => lColl = [before |-> 0, inserted |-> lFile.docs]
  /\ (lConfirmation # Undefined /\ ~Forcing(lConfirmation)) =>
       (lColl.before > 0 /\ lColl.inserted = 0 /\ lPc = "returned")


(***************************************************************************)
(* extract-queries.js: findJsFiles (9-21) on one directory tree            *)
(*                                                                         *)
(* A name is the sequence of its characters; a path is the sequence of the *)
(* names from SEARCH_DIR down. An entry of a directory is a file or a      *)
(* directory with its own entries.                                         *)
(***************************************************************************)
NameGit == <<".", "g", "i", "t">>
NameGithub == <<".", "g", "i", "t", "h", "u", "b">>
NameNodeModules == <<"n", "o", "d", "e", "_", "m", "o", "d", "u", "l", "e", "s">>
NameSrc == <<"s", "r", "c">>
DirNames == {NameGit, NameGithub, NameNodeModules, NameSrc}
FileNames == {<<"a", ".", "j", "s">>, <<"b", ".", "t", "s">>, <<"c", ".", "j", "s", "o", "n">>}

File(name) == [name |-> name, kind |-> "file", items |-> <<>>]
Dir(name, items) == [name |-> name, kind |-> "dir", items |-> items]

\* String.prototype.includes
Includes(text, pat) ==
  \E k \in 0..(Len(text) - Len(pat)) : SubSeq(text, k + 1, k + Len(pat)) = pat

EndsWith(text, suffix) ==
  Len(text) >= Len(suffix)
    /\ SubSeq(text, Len(text) - Len(suffix) + 1, Len(text)) = suffix

\* line 16: /\.(js|ts)$/.test(item.name)
IsSource(name) ==
  EndsWith(name, <<".", "j", "s">>) \/ EndsWith(name, <<".", "t", "s">>)

RECURSIVE Join(_)
\* path.join of the names of a path: a/b/c
Join(path) ==
  IF Len(path) = 0 THEN <<>>
  ELSE IF Len(path) = 1 THEN path[1]
  ELSE path[1] \o <<"/">> \o Join(Tail(path))

\* line 14: the directory is descended into
Descended(fullPath) ==
  ~Includes(Join(fullPath), NameNodeModules) /\ ~Includes(Join(fullPath), NameGit)

RECURSIVE FilesFrom(_, _, _)
\* lines 12-19: the loop over the entries of dir from the k-th on
FilesFrom(dir, items, k) ==
  IF k > Len(items) THEN <<>>
  ELSE LET item == items[k]
           fullPath == Append(dir, item.name)
       IN (IF item.kind = "dir" /\ Descended(fullPath)
           THEN FilesFrom(fullPath, item.items, 1)
           ELSE IF item.kind = "file" /\ IsSource(item.name) THEN <<fullPath>>
           ELSE <<>>)
          \o FilesFrom(dir, items, k + 1)

\* findJsFiles(dir) for the directory at path dir with the entries items
findJsFiles(dir, items) == FilesFrom(dir, items, 1)

MaxEntries == 3

RECURSIVE Size(_)
\* The number of entries of a tree, at every depth
Size(items) ==
  IF Len(items) = 0 THEN 0
  ELSE 1 + Size(Head(items).items) + Size(Tail(items))

RECURSIVE Forests(_)
\* The trees of at most n entries, in readdir order
Forests(n) ==
  IF n = 0 THEN {<<>>}
  ELSE {<<>>}
       \cup UNION {{<<File(f)>> \o rest : rest \in Forests(n - 1)} : f \in FileNames}
       \cup UNION {UNION {{<<Dir(d, c)>> \o rest : rest \in Forests(n - 1 - Size(c))} :
                            c \in Forests(n - 1)} : d \in DirNames}

RECURSIVE DistinctNames(_)
\* The entries of one directory have different names.
DistinctNames(items) ==
  /\ \A a, b \in 1..Len(items) : a # b => items[a].name # items[b].name
  /\ \A a \in 1..Len(items) : DistinctNames(items[a].items)

InitFind ==
  /\ fsRoot \in {t \in Forests(MaxEntries) : DistinctNames(t)}
  /\ fPc = "input"
  /\ foundFiles = <<>>
  /\ env = EnvDefaults
  /\ IdleProfiler
  /\ IdleClassify
  /\ IdleAnalyze
  /\ IdleExtract
  /\ IdleLoad
  /\ IdlePipeline

\* line 129: const files = findJsFiles(SEARCH_DIR)
FindFiles ==
  /\ fPc = "input"
  /\ foundFiles' = findJsFiles(<<>>, fsRoot)
  /\ fPc' = "done"
  /\ UNCHANGED fsRoot
  /\ FindOnly

NextFind == FindFiles

SpecFind == InitFind /\ [][NextFind]_vars

RECURSIVE SourcesFrom(_, _, _)
\* The .js / .ts files below dir none of whose ancestor directories is a
\* node_modules or a .git directory
SourcesFrom(dir, items, k) ==
  IF k > Len(items) THEN {}
  ELSE LET item == items[k]
           fullPath == Append(dir, item.name)
       IN (IF item.kind = "dir"
           THEN (IF item.name \in {NameNodeModules, NameGit} THEN {}
                 ELSE SourcesFrom(fullPath, item.items, 1))
           ELSE IF IsSource(item.name) THEN {fullPath} ELSE {})
          \cup SourcesFrom(dir, items, k + 1)

\* C19 (as claimed): findJsFiles returns exactly the .js / .ts files none of
\* whose ancestor directories is a node_modules or a .git directory: none
\* below such a directory, and every other one, those below a directory
\* like .github included.
C19_FindJsFilesExact ==
  fPc = "done" =>
    {foundFiles[k] : k \in 1..Len(foundFiles)} = SourcesFrom(<<>>, fsRoot, 1)

(***************************************************************************)
(* mongo-profiler-pipeline.js: the driver and the three stages it spawns   *)
(***************************************************************************)
MaxItems == 1

\* __dirname of the driver and of the three scripts, from the repository root
scriptsDir == <<".github", "scripts">>

RECURSIVE Resolve(_, _)
\* path.resolve / path.join of a directory and a relative path, segment by
\* segment: ".." drops the last segment.
Resolve(dir, segs) ==
  IF segs = <<>> THEN dir
  ELSE IF Head(segs) = ".."
  THEN Resolve(IF dir = <<>> THEN dir ELSE SubSeq(dir, 1, Len(dir) - 1), Tail(segs))
  ELSE Resolve(Append(dir, Head(segs)), Tail(segs))

\* extract-queries.js line 6: OUTPUT_FILE
EXTRACT_OUTPUT_FILE == Resolve(scriptsDir, <<"..", "..", "reports", "queries.json">>)
\* run-profiler.js line 9
QUERIES_FILE == Resolve(scriptsDir, <<"queries.json">>)
\* run-profiler.js line 10: OUTPUT_FILE
PROFILER_OUTPUT_FILE == Resolve(scriptsDir, <<"profiler-output.log">>)
\* analyze-explains.js line 5
INPUT_FILE == Resolve(scriptsDir, <<"..", "..", "reports", "profiler-output.log">>)
\* mongo-profiler-pipeline.js line 45: queriesFile
DriverQueriesFile == Resolve(scriptsDir, <<"queries.json">>)

ArtifactPaths ==
  {EXTRACT_OUTPUT_FILE, QUERIES_FILE, PROFILER_OUTPUT_FILE, INPUT_FILE, DriverQueriesFile}

\* The content of a file: who wrote it, whether it parses as a JSON list, and
\* the length of the list.
Missing == [by |-> "nobody", kind |-> "missing", n |-> 0]
ListOf(by, n) == [by |-> by, kind |-> "list", n |-> n]
NotJson(by) == [by |-> by, kind |-> "bad", n |-> 0]

\* What a path may hold before the pipeline starts: nothing, or what an
\* earlier run or a person left there.
EarlierContents ==
  {Missing, NotJson("earlier")} \cup {ListOf("earlier", n) : n \in 0..MaxItems}

InitPipeline ==
  /\ env = EnvDefaults
  /\ dPc = "start"
  /\ dFs \in [ArtifactPaths -> EarlierContents]
  /\ stages = <<>>
  /\ consumed = <<>>
  /\ dExit = "none"
  /\ IdleProfiler
  /\ IdleClassify
  /\ IdleAnalyze
  /\ IdleExtract
  /\ IdleFind
  /\ IdleLoad

Stage(name, status) == [name |-> name, status |-> status]
Read(reader, path) == [reader |-> reader, path |-> path, content |-> dFs[path]]

\* lines 70-77: the catch of main
PipelineFailed ==
  /\ dPc' = "exited"
  /\ dExit' = "1"

\* lines 9-34, up to the spawn: the child runs, or it cannot be spawned, the
\* 'error' event rejects the promise and main's catch exits 1.
runScript(scriptName, before) ==
  \/ /\ stages' = Append(before, Stage(scriptName, "running"))
     /\ dPc' = scriptName
     /\ dExit' = dExit
  \/ /\ stages' = Append(before, Stage(scriptName, "spawn-error"))
     /\ PipelineFailed

\* The stage list with the outcome of the running stage filled in.
Closed(code) == [stages EXCEPT ![Len(stages)].status = code]

\* line 42: the extract stage is spawned
StartPipeline ==
  /\ dPc = "start"
  /\ runScript("extract", stages)
  /\ UNCHANGED <<env, dFs, consumed>>
  /\ PipelineOnly

\* extract-queries.js main ended with code 0 after writing its list to
\* OUTPUT_FILE (line 147); the 'close' handler resolves and main goes on with
\* lines 44-59: the check of queriesFile, then the profile stage.
ExtractCloses ==
  /\ dPc = "extract"
  /\ \E n \in 0..MaxItems :
       LET written == [dFs EXCEPT ![EXTRACT_OUTPUT_FILE] = ListOf("extract", n)]
           checked == written[DriverQueriesFile]
       IN
       /\ dFs' = written
       /\ consumed' = Append(consumed, [reader |-> "driver", path |-> DriverQueriesFile,
                                        content |-> checked])
       /\ IF checked.kind # "list"
          THEN stages' = Closed("0") /\ PipelineFailed
          ELSE IF checked.n = 0
          THEN stages' = Closed("0") /\ dPc' = "done" /\ dExit' = "0"
          ELSE runScript("profile", Closed("0"))
  /\ UNCHANGED env
  /\ PipelineOnly

\* A stage's process ended with a code other than 0 before writing anything
\* (lines 23-26), and main's catch exits 1.
StageFails ==
  /\ dPc \in {"extract", "profile", "analyze"}
  /\ stages' = Closed("nonzero")
  /\ PipelineFailed
  /\ UNCHANGED <<env, dFs, consumed>>
  /\ PipelineOnly

\* run-profiler.js main read QUERIES_FILE (line 130), wrote one record per
\* descriptor to OUTPUT_FILE (line 178) and ended with code 0; line 62 spawns
\* the analyze stage.
ProfileCloses ==
  /\ dPc = "profile"
  /\ dFs[QUERIES_FILE].kind = "list"
  /\ consumed' = Append(consumed, Read("profile", QUERIES_FILE))
  /\ dFs' = IF dFs[QUERIES_FILE].n = 0 THEN dFs
            ELSE [dFs EXCEPT ![PROFILER_OUTPUT_FILE] = ListOf("profile", dFs[QUERIES_FILE].n)]
  /\ runScript("analyze", Closed("0"))
  /\ UNCHANGED env
  /\ PipelineOnly

\* analyze-explains.js main: a missing INPUT_FILE (lines 271-274) or one that
\* does not parse (line 276) ends the stage with code 1; otherwise the
\* summary is appended to INPUT_FILE (line 316) and the stage ends with code
\* 0, after which the driver is done (lines 64-68).
AnalyzeCloses ==
  /\ dPc = "analyze"
  /\ consumed' = Append(consumed, Read("analyze", INPUT_FILE))
  /\ IF dFs[INPUT_FILE].kind # "list"
     THEN /\ stages' = Closed("nonzero")
          /\ PipelineFailed
          /\ dFs' = dFs
     ELSE /\ stages' = Closed("0")
          /\ dPc' = "done"
          /\ dExit' = "0"
          /\ dFs' = [dFs EXCEPT ![INPUT_FILE] = NotJson(dFs[INPUT_FILE].by)]
  /\ UNCHANGED env
  /\ PipelineOnly

\* lines 81-84: SIGINT while a stage is awaited
Interrupt ==
  /\ dPc \in {"extract", "profile", "analyze"}
  /\ dPc' = "exited"
  /\ dExit' = "0"
  /\ UNCHANGED <<env, dFs, stages, consumed>>
  /\ PipelineOnly

NextPipeline ==
  \/ StartPipeline
  \/ ExtractCloses
  \/ StageFails
  \/ ProfileCloses
  \/ AnalyzeCloses
  \/ Interrupt

SpecPipeline == InitPipeline /\ [][NextPipeline]_vars

StageOrder == <<"extract", "profile", "analyze">>

\* The extract stage ended with code 0 and the list it wrote is empty.
ExtractedNothing ==
  /\ Len(stages) >= 1
  /\ stages[1].status = "0"
  /\ dFs[EXTRACT_OUTPUT_FILE] = ListOf("extract", 0)

\* C28 (as claimed): the stages are started in the order extract, profile,
\* analyze, each only after the one before it ended with code 0; a stage
\* that ends with another code or cannot be spawned is the last one and the
\* driver exits with code 1; when the extracted list is empty, only the
\* extract stage was started and the driver ends without error.
C28_StagesInOrder ==
  /\ Len(stages) <= 3
  /\ \A k \in 1..Len(stages) : stages[k].name = StageOrder[k]
  /\ \A k \in 2..Len(stages) : stages[k - 1].status = "0"
  /\ \A k \in 1..Len(stages) :
       stages[k].status \in {"nonzero", "spawn-error"}
       => Len(stages) = k /\ dPc = "exited" /\ dExit = "1"
  /\ ExtractedNothing => Len(stages) = 1 /\ dPc = "done" /\ dExit = "0"

\* The stage whose output a reader is meant to read.
Producer(reader) == IF reader = "analyze" THEN "profile" ELSE "extract"

\* C29 (as claimed): what the driver checks and the engine reads is the list
\* the extract stage wrote, and what the analyzer reads is the result list
\* the engine wrote: after an extract stage that ended with code 0 the
\* driver's check finds that list, and no reader is given a missing file or
\* one left by somebody else.
C29_ArtifactHandOff ==
  /\ \A k \in 1..Len(consumed) :
       /\ consumed[k].content.kind = "list"
       /\ consumed[k].content.by = Producer(consumed[k].reader)
  /\ (Len(stages) >= 1 /\ stages[1].status = "0") =>
       /\ Len(consumed) >= 1
       /\ consumed[1].content = dFs[EXTRACT_OUTPUT_FILE]

====
